---- MODULE Spec2Model ----
(***************************************************************************)
(* The CIDR / subnet calculation engine of website/services/cidr:          *)
(* utils.ts (address arithmetic, range records), calculator.ts (overlap,   *)
(* next free block, split, merge, supernet) and the parts of validation.ts *)
(* they call (expandIPv6, compressIPv6).                                   *)
(*                                                                         *)
(* Representation.  A text is a sequence of one-character strings.  A JS   *)
(* number is a pair <<hi, lo>> denoting hi * 2^16 + lo with lo in          *)
(* 0 .. 2^16 - 1 (hi is negative for a negative number); the pair keeps    *)
(* the full 32-bit width of the code's arithmetic, and the values above    *)
(* 2^32 that the code's double arithmetic reaches, inside TLC's integers.  *)
(* NaN is the pair <<0, -1>>.                                              *)
(***************************************************************************)
EXTENDS Integers, Sequences, FiniteSets, TLC

VARIABLES fn, args, ret, pc

vars == <<fn, args, ret, pc>>

-----------------------------------------------------------------------------
(* JS numbers                                                              *)

Limb == 2^16

NaN == <<0, -1>>

IsNaN(x) == x = NaN

\* The number n, for an integer n that TLC can hold.
Num(n) == <<n \div Limb, n % Limb>>

Norm(h, l) == <<h + (l \div Limb), l % Limb>>

\* x + y, x - y
NumAdd(x, y) == IF IsNaN(x) \/ IsNaN(y) THEN NaN ELSE Norm(x[1] + y[1], x[2] + y[2])

NumSub(x, y) == IF IsNaN(x) \/ IsNaN(y) THEN NaN ELSE Norm(x[1] - y[1], x[2] - y[2])

\* x < y, x <= y, x === y : every comparison with NaN is false
NumLt(x, y) ==
    /\ ~IsNaN(x)
    /\ ~IsNaN(y)
    /\ (x[1] < y[1] \/ (x[1] = y[1] /\ x[2] < y[2]))

NumLe(x, y) == ~IsNaN(x) /\ ~IsNaN(y) /\ (x = y \/ NumLt(x, y))

NumEq(x, y) == ~IsNaN(x) /\ ~IsNaN(y) /\ x = y

\* Math.min, Math.max
MathMin(x, y) == IF IsNaN(x) \/ IsNaN(y) THEN NaN ELSE IF NumLt(y, x) THEN y ELSE x

MathMax(x, y) == IF IsNaN(x) \/ IsNaN(y) THEN NaN ELSE IF NumLt(x, y) THEN y ELSE x

\* ToUint32 and ToInt32 of ECMAScript: NaN becomes 0, the rest is taken modulo 2^32.
ToUint32(x) == IF IsNaN(x) THEN <<0, 0>> ELSE <<x[1] % Limb, x[2]>>

ToInt32(x) ==
    LET u == ToUint32(x)
    IN  IF u[1] >= Limb \div 2 THEN <<u[1] - Limb, u[2]>> ELSE u

RECURSIVE BitAndNat(_, _)
BitAndNat(a, b) ==
    IF a = 0 \/ b = 0 THEN 0
    ELSE (a % 2) * (b % 2) + 2 * BitAndNat(a \div 2, b \div 2)

\* x & y, x | y, ~x : on the 32-bit patterns, the result a signed 32-bit number
BitAnd(x, y) ==
    LET a == ToUint32(x)
        b == ToUint32(y)
    IN  ToInt32(<<BitAndNat(a[1], b[1]), BitAndNat(a[2], b[2])>>)

BitOr(x, y) ==
    LET a == ToUint32(x)
        b == ToUint32(y)
    IN  ToInt32(<<a[1] + b[1] - BitAndNat(a[1], b[1]), a[2] + b[2] - BitAndNat(a[2], b[2])>>)

BitNot(x) ==
    LET a == ToUint32(x)
    IN  ToInt32(<<Limb - 1 - a[1], Limb - 1 - a[2]>>)

\* The shift count of <<, >>> : the low five bits of ToUint32(n).
ShiftCount(n) == ToUint32(n)[2] % 32

\* x << n : a signed 32-bit number
Shl(x, n) ==
    LET a == ToUint32(x)
        s == ShiftCount(n)
    IN  IF s < 16
        THEN ToInt32(<<(a[1] * 2^s + ((a[2] * 2^s) \div Limb)) % Limb, (a[2] * 2^s) % Limb>>)
        ELSE ToInt32(<<(a[2] * 2^(s - 16)) % Limb, 0>>)

\* x >>> n : an unsigned 32-bit number
Ushr(x, n) ==
    LET a == ToUint32(x)
        s == ShiftCount(n)
    IN  IF s < 16
        THEN <<a[1] \div 2^s, (a[2] \div 2^s) + (a[1] % 2^s) * 2^(16 - s)>>
        ELSE <<0, a[1] \div 2^(s - 16)>>

\* Math.pow(2, e) for an integer e in 0 .. 46
MathPow2(e) ==
    IF IsNaN(e) THEN NaN
    ELSE IF e[2] < 16 THEN <<0, 2^e[2]>> ELSE <<2^(e[2] - 16), 0>>

\* x modulo the power of two b (b > 0)
ModPow2(x, b) == IF b[1] = 0 THEN <<0, x[2] % b[2]>> ELSE <<x[1] % b[1], x[2]>>

\* Math.floor(x / b) * b and Math.ceil(x / b) * b for a power of two b: division
\* and multiplication by a power of two are exact in double arithmetic.
FloorToMultiple(x, b) == NumSub(x, ModPow2(x, b))

CeilToMultiple(x, b) ==
    IF ModPow2(x, b) = <<0, 0>> THEN x ELSE NumAdd(FloorToMultiple(x, b), b)

\* i * b for a small natural i and a number b < 2^33
MulSmall(i, b) == Norm(i * b[1], i * b[2])

\* Math.ceil(Math.log2(x)) for an integer x in 1 .. 2^32: the least k with
\* 2^k >= x (log2 is exact on powers of two and, below 2^32, never rounds a
\* non-power up to an integer).
RECURSIVE CeilLog2From(_, _)
CeilLog2From(x, k) == IF NumLe(x, MathPow2(Num(k))) THEN k ELSE CeilLog2From(x, k + 1)

CeilLog2(x) == Num(CeilLog2From(x, 0))

-----------------------------------------------------------------------------
(* Texts                                                                   *)

DecDigits == <<"0", "1", "2", "3", "4", "5", "6", "7", "8", "9">>

HexDigits == DecDigits \o <<"a", "b", "c", "d", "e", "f">>

IsDecDigit(c) == \E i \in 1..10 : DecDigits[i] = c

IsHexDigit(c) == \E i \in 1..16 : HexDigits[i] = c

DigitValue(c) == (CHOOSE i \in 1..16 : HexDigits[i] = c) - 1

Undefined == <<"u", "n", "d", "e", "f", "i", "n", "e", "d">>

\* s.slice(from, to) with 0-based from (inclusive) and to (exclusive)
Slice(s, from, to) ==
    LET t == IF to > Len(s) THEN Len(s) ELSE to
    IN  IF from >= t THEN <<>> ELSE SubSeq(s, from + 1, t)

\* The index (1-based) of the first occurrence of the text sep in s at or
\* after position i, or 0.
RECURSIVE IndexOfFrom(_, _, _)
IndexOfFrom(s, sep, i) ==
    IF i + Len(sep) - 1 > Len(s) THEN 0
    ELSE IF SubSeq(s, i, i + Len(sep) - 1) = sep THEN i
    ELSE IndexOfFrom(s, sep, i + 1)

Includes(s, sep) == IndexOfFrom(s, sep, 1) # 0

\* s.split(sep) for a non-empty separator
RECURSIVE Split(_, _)
Split(s, sep) ==
    LET i == IndexOfFrom(s, sep, 1)
    IN  IF i = 0 THEN <<s>>
        ELSE <<SubSeq(s, 1, i - 1)>> \o Split(SubSeq(s, i + Len(sep), Len(s)), sep)

\* parts.join(sep)
RECURSIVE Join(_, _)
Join(parts, sep) ==
    IF parts = <<>> THEN <<>>
    ELSE IF Len(parts) = 1 THEN parts[1]
    ELSE parts[1] \o sep \o Join(Tail(parts), sep)

\* s.lastIndexOf(c), 0-based, -1 when absent
RECURSIVE LastIndexOfFrom(_, _, _)
LastIndexOfFrom(s, c, i) ==
    IF i = 0 THEN -1
    ELSE IF s[i] = c THEN i - 1
    ELSE LastIndexOfFrom(s, c, i - 1)

LastIndexOf(s, c) == LastIndexOfFrom(s, c, Len(s))

\* s.padStart(n, c), s.padEnd(n, c) for a one-character c
PadStart(s, n, c) == IF Len(s) >= n THEN s ELSE [i \in 1..(n - Len(s)) |-> c] \o s

PadEnd(s, n, c) == IF Len(s) >= n THEN s ELSE s \o [i \in 1..(n - Len(s)) |-> c]

\* The value of a text of digits in the given radix (most significant first).
RECURSIVE DigitsValue(_, _)
DigitsValue(s, radix) ==
    IF s = <<>> THEN 0
    ELSE DigitsValue(SubSeq(s, 1, Len(s) - 1), radix) * radix + DigitValue(s[Len(s)])

\* The longest prefix of s made of digits of the radix.
RECURSIVE DigitPrefix(_, _)
DigitPrefix(s, radix) ==
    IF s = <<>> \/ ~IsHexDigit(s[1]) \/ DigitValue(s[1]) >= radix THEN <<>>
    ELSE <<s[1]>> \o DigitPrefix(Tail(s), radix)

RECURSIVE SkipSpaces(_)
SkipSpaces(s) == IF s # <<>> /\ s[1] = " " THEN SkipSpaces(Tail(s)) ELSE s

\* parseInt(s, radix): leading white space, an optional sign, then the longest
\* run of digits; NaN when there is no digit.
ParseInt(s, radix) ==
    LET t == SkipSpaces(s)
        neg == t # <<>> /\ t[1] = "-"
        u == IF t # <<>> /\ (t[1] = "-" \/ t[1] = "+") THEN Tail(t) ELSE t
        d == DigitPrefix(u, radix)
    IN  IF d = <<>> THEN NaN
        ELSE IF neg THEN Num(0 - DigitsValue(d, radix)) ELSE Num(DigitsValue(d, radix))

\* s.trim() (of the white space modelled here, the space)
RECURSIVE TrimEnd(_)
TrimEnd(s) == IF s # <<>> /\ s[Len(s)] = " " THEN TrimEnd(SubSeq(s, 1, Len(s) - 1)) ELSE s

Trim(s) == TrimEnd(SkipSpaces(s))

\* s.toLowerCase() on the letters modelled here
UpperCase == <<"A", "B", "C", "D", "E", "F", "G">>

LowerCase == <<"a", "b", "c", "d", "e", "f", "g">>

ToLowerCase(s) ==
    [i \in 1..Len(s) |->
        IF \E k \in 1..Len(UpperCase) : UpperCase[k] = s[i]
        THEN LowerCase[CHOOSE k \in 1..Len(UpperCase) : UpperCase[k] = s[i]]
        ELSE s[i]]

\* Number(s) for a text s: white space around it is dropped, the empty text is
\* 0, a text of decimal digits is its value, any other text of the characters
\* modelled here is NaN.
StrToNumber(s) ==
    LET OfTrimmed(t) ==
            IF t = <<>> THEN Num(0)
            ELSE IF \A i \in 1..Len(t) : IsDecDigit(t[i]) THEN Num(DigitsValue(t, 10))
            ELSE NaN
    IN  OfTrimmed(Trim(s))

\* The digits of the natural n in the radix, most significant first ("0" for 0).
RECURSIVE NatToDigits(_, _)
NatToDigits(n, radix) ==
    IF n < radix THEN <<HexDigits[n + 1]>>
    ELSE NatToDigits(n \div radix, radix) \o <<HexDigits[(n % radix) + 1]>>

\* x.toString() / `${x}` for an integer x >= 0 or NaN: long division of the two
\* limbs by ten.
RECURSIVE NumToString(_)
NumToString(x) ==
    IF IsNaN(x) THEN <<"N", "a", "N">>
    ELSE LET t == (x[1] % 10) * Limb + x[2]
             q == <<x[1] \div 10, t \div 10>>
         IN  IF q = <<0, 0>> THEN <<DecDigits[(t % 10) + 1]>>
             ELSE NumToString(q) \o <<DecDigits[(t % 10) + 1]>>

-----------------------------------------------------------------------------
(* utils.ts: IPv4                                                          *)

\* octets[i] of a JS array (0-based i): undefined past the end, which the
\* bitwise operators read as NaN does.
At(arr, i) == IF i + 1 <= Len(arr) THEN arr[i + 1] ELSE NaN

parseIP(ip) ==
    LET parts == Split(ip, <<".">>)
    IN  [i \in 1..Len(parts) |-> StrToNumber(parts[i])]

octetsToIP(octets) == Join([i \in 1..Len(octets) |-> NumToString(octets[i])], <<".">>)

ipToInt(octets) ==
    Ushr(BitOr(BitOr(BitOr(Shl(At(octets, 0), Num(24)), Shl(At(octets, 1), Num(16))),
                     Shl(At(octets, 2), Num(8))),
               At(octets, 3)),
         Num(0))

intToOctets(int) ==
    <<BitAnd(Ushr(int, Num(24)), Num(255)),
      BitAnd(Ushr(int, Num(16)), Num(255)),
      BitAnd(Ushr(int, Num(8)), Num(255)),
      BitAnd(int, Num(255))>>

intToIP(int) == octetsToIP(intToOctets(int))

\* Mutant of prefixToMask: the prefix === 0 case is missing, so the shift
\* count 32 is read as 0.
prefixToMask_NoZeroCase(prefix) ==
    Ushr(Shl(BitNot(Num(0)), NumSub(Num(32), prefix)), Num(0))

prefixToMask(prefix) ==
    IF NumEq(prefix, Num(0)) THEN Num(0)
    ELSE Ushr(Shl(BitNot(Num(0)), NumSub(Num(32), prefix)), Num(0))

prefixToSubnetMask(prefix) == intToIP(prefixToMask(prefix))

prefixToWildcardMask(prefix) == intToIP(Ushr(BitNot(prefixToMask(prefix)), Num(0)))

calculateTotalHosts(prefix) ==
    IF NumEq(prefix, Num(32)) THEN <<"1">>
    ELSE NumToString(MathPow2(NumSub(Num(32), prefix)))

\* Mutant of calculateUsableHosts: prefix > 31 in place of prefix >= 31.
calculateUsableHosts_Gt31(prefix) ==
    IF NumLt(Num(31), prefix)
    THEN (IF NumEq(prefix, Num(32)) THEN <<"1">> ELSE <<"2">>)
    ELSE NumToString(NumSub(MathPow2(NumSub(Num(32), prefix)), Num(2)))

calculateUsableHosts(prefix) ==
    IF NumLe(Num(31), prefix)
    THEN (IF NumEq(prefix, Num(32)) THEN <<"1">> ELSE <<"2">>)
    ELSE NumToString(NumSub(MathPow2(NumSub(Num(32), prefix)), Num(2)))

getNetworkAddress(ipInt, prefix) == Ushr(BitAnd(ipInt, prefixToMask(prefix)), Num(0))

getBroadcastAddress(ipInt, prefix) ==
    LET mask == prefixToMask(prefix)
        wildcard == Ushr(BitNot(mask), Num(0))
        network == Ushr(BitAnd(ipInt, mask), Num(0))
    IN  Ushr(BitOr(network, wildcard), Num(0))

\* Mutant of getFirstUsableAddress: prefix >= 32 in place of prefix >= 31.
getFirstUsableAddress_Ge32(networkInt, prefix) ==
    IF NumLe(Num(32), prefix) THEN networkInt ELSE NumAdd(networkInt, Num(1))

getFirstUsableAddress(networkInt, prefix) ==
    IF NumLe(Num(31), prefix) THEN networkInt ELSE NumAdd(networkInt, Num(1))

getLastUsableAddress(broadcastInt, prefix) ==
    IF NumLe(Num(31), prefix) THEN broadcastInt ELSE NumSub(broadcastInt, Num(1))

\* ipInt.toString(2).padStart(32, "0") for an unsigned 32-bit ipInt
ipToBinary(ipInt) ==
    PadStart(IF ipInt[1] = 0 THEN NatToDigits(ipInt[2], 2)
             ELSE NatToDigits(ipInt[1], 2) \o PadStart(NatToDigits(ipInt[2], 2), 16, "0"),
             32, "0")

formatBinaryIP(binary) ==
    Join(<<Slice(binary, 0, 8), Slice(binary, 8, 16), Slice(binary, 16, 24),
           Slice(binary, 24, 32)>>, <<".">>)

IP_CLASSES ==
    <<[class |-> "A", start |-> 0, end |-> 127],
      [class |-> "B", start |-> 128, end |-> 191],
      [class |-> "C", start |-> 192, end |-> 223],
      [class |-> "D", start |-> 224, end |-> 239],
      [class |-> "E", start |-> 240, end |-> 255]>>

PRIVATE_RANGES ==
    <<[start |-> <<"1", "0", ".", "0", ".", "0", ".", "0">>,
       end |-> <<"1", "0", ".", "2", "5", "5", ".", "2", "5", "5", ".", "2", "5", "5">>],
      [start |-> <<"1", "7", "2", ".", "1", "6", ".", "0", ".", "0">>,
       end |-> <<"1", "7", "2", ".", "3", "1", ".", "2", "5", "5", ".", "2", "5", "5">>],
      [start |-> <<"1", "9", "2", ".", "1", "6", "8", ".", "0", ".", "0">>,
       end |-> <<"1", "9", "2", ".", "1", "6", "8", ".", "2", "5", "5", ".", "2", "5", "5">>]>>

getIPClass(firstOctet) ==
    IF \E k \in 1..Len(IP_CLASSES) :
           NumLe(Num(IP_CLASSES[k].start), firstOctet) /\ NumLe(firstOctet, Num(IP_CLASSES[k].end))
    THEN LET k == CHOOSE j \in 1..Len(IP_CLASSES) :
                      /\ NumLe(Num(IP_CLASSES[j].start), firstOctet)
                      /\ NumLe(firstOctet, Num(IP_CLASSES[j].end))
                      /\ \A i \in 1..(j - 1) :
                             ~(NumLe(Num(IP_CLASSES[i].start), firstOctet)
                               /\ NumLe(firstOctet, Num(IP_CLASSES[i].end)))
         IN  IP_CLASSES[k].class
    ELSE "Unknown"

isPrivateIP(ipInt) ==
    \E k \in 1..Len(PRIVATE_RANGES) :
        /\ NumLe(ipToInt(parseIP(PRIVATE_RANGES[k].start)), ipInt)
        /\ NumLe(ipInt, ipToInt(parseIP(PRIVATE_RANGES[k].end)))

\* const [ipStr, prefixStr] = cidr.split("/"): the first two parts, the second
\* undefined when the text holds no "/".
SplitCIDR2(cidr) ==
    LET parts == Split(cidr, <<"/">>)
    IN  [ipStr |-> parts[1], prefixStr |-> IF Len(parts) >= 2 THEN parts[2] ELSE Undefined]

\* Mutant of parseCIDR: networkInt is the address as written, the masking by
\* getNetworkAddress being missing.
parseCIDR_NoNetwork(cidr) ==
    LET sp == SplitCIDR2(cidr)
        ip == parseIP(sp.ipStr)
        prefixLength == ParseInt(sp.prefixStr, 10)
    IN  [ip |-> ip,
         prefixLength |-> prefixLength,
         networkInt |-> ipToInt(ip),
         ipVersion |-> 4]

parseCIDR(cidr) ==
    LET sp == SplitCIDR2(cidr)
        ip == parseIP(sp.ipStr)
        prefixLength == ParseInt(sp.prefixStr, 10)
    IN  [ip |-> ip,
         prefixLength |-> prefixLength,
         networkInt |-> getNetworkAddress(ipToInt(ip), prefixLength),
         ipVersion |-> 4]

\* `${ip}/${prefix}`
CidrText(ip, prefix) == ip \o <<"/">> \o NumToString(prefix)

\* calculateCIDRRange(cidr) with the id that generateRangeId() returned
calculateCIDRRange(cidr, id) ==
    LET sp == SplitCIDR2(cidr)
        prefix == ParseInt(sp.prefixStr, 10)
        octets == parseIP(sp.ipStr)
        ipInt == ipToInt(octets)
        networkInt == getNetworkAddress(ipInt, prefix)
        broadcastInt == getBroadcastAddress(ipInt, prefix)
        firstUsableInt == getFirstUsableAddress(networkInt, prefix)
        lastUsableInt == getLastUsableAddress(broadcastInt, prefix)
    IN  [id |-> id,
         cidr |-> CidrText(intToIP(networkInt), prefix),
         networkAddress |-> intToIP(networkInt),
         broadcastAddress |-> intToIP(broadcastInt),
         firstUsable |-> intToIP(firstUsableInt),
         lastUsable |-> intToIP(lastUsableInt),
         subnetMask |-> prefixToSubnetMask(prefix),
         wildcardMask |-> prefixToWildcardMask(prefix),
         totalHosts |-> calculateTotalHosts(prefix),
         usableHosts |-> calculateUsableHosts(prefix),
         prefixLength |-> prefix,
         ipClass |-> getIPClass(At(octets, 0)),
         isPrivate |-> isPrivateIP(networkInt),
         binaryNetwork |-> formatBinaryIP(ipToBinary(networkInt)),
         ipVersion |-> 4]

\* Mutant of normalizeCIDR: the address is written back without the mask applied.
normalizeCIDR_NoMask(cidr) ==
    LET sp == SplitCIDR2(cidr)
        prefix == ParseInt(sp.prefixStr, 10)
        octets == parseIP(sp.ipStr)
        ipInt == ipToInt(octets)
    IN  CidrText(intToIP(ipInt), prefix)

normalizeCIDR(cidr) ==
    LET sp == SplitCIDR2(cidr)
        prefix == ParseInt(sp.prefixStr, 10)
        octets == parseIP(sp.ipStr)
        ipInt == ipToInt(octets)
        networkInt == getNetworkAddress(ipInt, prefix)
    IN  CidrText(intToIP(networkInt), prefix)

-----------------------------------------------------------------------------
(* calculator.ts: IPv4                                                     *)

\* null, where the code returns a text or null
Null == <<"null">>

\* null, where the code returns a CIDROverlap or null
NoOverlap == [overlapType |-> "null"]

Overlap(range1, range2, type) ==
    [range1Id |-> range1.id,
     range2Id |-> range2.id,
     range1Cidr |-> range1.cidr,
     range2Cidr |-> range2.cidr,
     overlapType |-> type]

\* Mutant of checkIPv4Overlap: the first test compares the starts with <.
checkIPv4Overlap_StrictStart(range1, range2) ==
    LET parsed1 == parseCIDR(range1.cidr)
        parsed2 == parseCIDR(range2.cidr)
        network1Start == parsed1.networkInt
        network1End == getBroadcastAddress(parsed1.networkInt, parsed1.prefixLength)
        network2Start == parsed2.networkInt
        network2End == getBroadcastAddress(parsed2.networkInt, parsed2.prefixLength)
    IN  IF NumLt(network1Start, network2Start) /\ NumLe(network2End, network1End)
        THEN Overlap(range1, range2, "contains")
        ELSE IF NumLe(network2Start, network1Start) /\ NumLe(network1End, network2End)
        THEN Overlap(range1, range2, "contained")
        ELSE IF \/ (NumLe(network1Start, network2End) /\ NumLe(network2Start, network1End))
                \/ (NumLe(network2Start, network1End) /\ NumLe(network1Start, network2End))
        THEN Overlap(range1, range2, "partial")
        ELSE NoOverlap

checkIPv4Overlap(range1, range2) ==
    LET parsed1 == parseCIDR(range1.cidr)
        parsed2 == parseCIDR(range2.cidr)
        network1Start == parsed1.networkInt
        network1End == getBroadcastAddress(parsed1.networkInt, parsed1.prefixLength)
        network2Start == parsed2.networkInt
        network2End == getBroadcastAddress(parsed2.networkInt, parsed2.prefixLength)
    IN  IF NumLe(network1Start, network2Start) /\ NumLe(network2End, network1End)
        THEN Overlap(range1, range2, "contains")
        ELSE IF NumLe(network2Start, network1Start) /\ NumLe(network1End, network2End)
        THEN Overlap(range1, range2, "contained")
        ELSE IF \/ (NumLe(network1Start, network2End) /\ NumLe(network2Start, network1End))
                \/ (NumLe(network2Start, network1End) /\ NumLe(network1Start, network2End))
        THEN Overlap(range1, range2, "partial")
        ELSE NoOverlap

\* The interval [rangeStart, rangeEnd] that findNextAvailableBlock computes for
\* an existing range.
RangeInterval(range) ==
    LET parsed == parseCIDR(range.cidr)
    IN  [rangeStart |-> parsed.networkInt,
         rangeEnd |-> getBroadcastAddress(parsed.networkInt, parsed.prefixLength)]

maxIterations == 1000

\* Mutant of FindNextBody: an existing range counts as overlapping only when
\* the candidate's first address lies in it.
FindNextBody_StartOnly(st, blockSize, prefix, existingRanges) ==
    LET candidate == st.candidate
        Hit(k) == LET r == RangeInterval(existingRanges[k])
                  IN  NumLe(candidate, r.rangeEnd) /\ NumLe(r.rangeStart, candidate)
    IN  IF \E k \in 1..Len(existingRanges) : Hit(k)
        THEN LET k == CHOOSE j \in 1..Len(existingRanges) :
                          Hit(j) /\ \A i \in 1..(j - 1) : ~Hit(i)
                 rangeEnd == RangeInterval(existingRanges[k]).rangeEnd
             IN  [returned |-> FALSE,
                  value |-> Null,
                  candidate |-> CeilToMultiple(NumAdd(rangeEnd, Num(1)), blockSize),
                  iterations |-> st.iterations + 1]
        ELSE [returned |-> TRUE,
              value |-> CidrText(intToIP(candidate), prefix),
              candidate |-> candidate,
              iterations |-> st.iterations]

\* Mutant of FindNextBody: the candidate is re-aligned with Math.floor in
\* place of Math.ceil.
FindNextBody_FloorRealign(st, blockSize, prefix, existingRanges) ==
    LET candidate == st.candidate
        candidateEnd == NumSub(NumAdd(candidate, blockSize), Num(1))
        Hit(k) == LET r == RangeInterval(existingRanges[k])
                  IN  NumLe(candidate, r.rangeEnd) /\ NumLe(r.rangeStart, candidateEnd)
    IN  IF \E k \in 1..Len(existingRanges) : Hit(k)
        THEN LET k == CHOOSE j \in 1..Len(existingRanges) :
                          Hit(j) /\ \A i \in 1..(j - 1) : ~Hit(i)
                 rangeEnd == RangeInterval(existingRanges[k]).rangeEnd
             IN  [returned |-> FALSE,
                  value |-> Null,
                  candidate |-> FloorToMultiple(NumAdd(rangeEnd, Num(1)), blockSize),
                  iterations |-> st.iterations + 1]
        ELSE [returned |-> TRUE,
              value |-> CidrText(intToIP(candidate), prefix),
              candidate |-> candidate,
              iterations |-> st.iterations]

\* One pass of the while loop of findNextAvailableBlock from the local state st
\* (candidate, iterations): the returned text when no existing range overlaps
\* the candidate, or the candidate moved past the first overlapping range.
FindNextBody(st, blockSize, prefix, existingRanges) ==
    LET candidate == st.candidate
        candidateEnd == NumSub(NumAdd(candidate, blockSize), Num(1))
        Hit(k) == LET r == RangeInterval(existingRanges[k])
                  IN  NumLe(candidate, r.rangeEnd) /\ NumLe(r.rangeStart, candidateEnd)
    IN  IF \E k \in 1..Len(existingRanges) : Hit(k)
        THEN LET k == CHOOSE j \in 1..Len(existingRanges) :
                          Hit(j) /\ \A i \in 1..(j - 1) : ~Hit(i)
                 rangeEnd == RangeInterval(existingRanges[k]).rangeEnd
             IN  [returned |-> FALSE,
                  value |-> Null,
                  candidate |-> CeilToMultiple(NumAdd(rangeEnd, Num(1)), blockSize),
                  iterations |-> st.iterations + 1]
        ELSE [returned |-> TRUE,
              value |-> CidrText(intToIP(candidate), prefix),
              candidate |-> candidate,
              iterations |-> st.iterations]

RECURSIVE FindNextLoop(_, _, _, _)
FindNextLoop(st, blockSize, prefix, existingRanges) ==
    IF st.iterations < maxIterations /\ NumLt(st.candidate, <<Limb - 1, Limb - 1>>)
    THEN LET Continue(next) ==
                 IF next.returned THEN next.value
                 ELSE FindNextLoop(next, blockSize, prefix, existingRanges)
         IN  Continue(FindNextBody(st, blockSize, prefix, existingRanges))
    ELSE Null

findNextAvailableBlock(afterNetwork, prefix, existingRanges) ==
    LET blockSize == MathPow2(NumSub(Num(32), prefix))
        candidate == FloorToMultiple(NumAdd(afterNetwork, blockSize), blockSize)
    IN  FindNextLoop([candidate |-> candidate, iterations |-> 0],
                     blockSize, prefix, existingRanges)

\* The natural that a small number denotes (loop bounds).
ToNat(x) == x[1] * Limb + x[2]

\* Mutant of splitCIDR: newPrefix < prefix in place of newPrefix <= prefix.
splitCIDR_Lt(cidr, newPrefix) ==
    LET parsed == parseCIDR(cidr)
    IN  IF NumLt(newPrefix, parsed.prefixLength) THEN <<cidr>>
        ELSE LET numSubnets == MathPow2(NumSub(newPrefix, parsed.prefixLength))
                 subnetSize == MathPow2(NumSub(Num(32), newPrefix))
             IN  IF IsNaN(numSubnets) THEN <<>>
                 ELSE [k \in 1..ToNat(numSubnets) |->
                          CidrText(intToIP(NumAdd(parsed.networkInt, MulSmall(k - 1, subnetSize))),
                                   newPrefix)]

\* Mutant of splitCIDR: the loop runs once more (i <= numSubnets), adding the
\* block behind the last one.
splitCIDR_OneMore(cidr, newPrefix) ==
    LET parsed == parseCIDR(cidr)
    IN  IF NumLe(newPrefix, parsed.prefixLength) THEN <<cidr>>
        ELSE LET numSubnets == MathPow2(NumSub(newPrefix, parsed.prefixLength))
                 subnetSize == MathPow2(NumSub(Num(32), newPrefix))
             IN  IF IsNaN(numSubnets) THEN <<>>
                 ELSE [k \in 1..(ToNat(numSubnets) + 1) |->
                          CidrText(intToIP(NumAdd(parsed.networkInt, MulSmall(k - 1, subnetSize))),
                                   newPrefix)]

splitCIDR(cidr, newPrefix) ==
    LET parsed == parseCIDR(cidr)
    IN  IF NumLe(newPrefix, parsed.prefixLength) THEN <<cidr>>
        ELSE LET numSubnets == MathPow2(NumSub(newPrefix, parsed.prefixLength))
                 subnetSize == MathPow2(NumSub(Num(32), newPrefix))
             IN  IF IsNaN(numSubnets) THEN <<>>
                 ELSE [k \in 1..ToNat(numSubnets) |->
                          CidrText(intToIP(NumAdd(parsed.networkInt, MulSmall(k - 1, subnetSize))),
                                   newPrefix)]

\* Mutant of canMergeCIDRs: the adjacency test is missing.
canMergeCIDRs_NoAdjacency(cidr1, cidr2) ==
    LET parsed1 == parseCIDR(cidr1)
        parsed2 == parseCIDR(cidr2)
        newPrefix == NumSub(parsed1.prefixLength, Num(1))
        lowerNetwork == MathMin(parsed1.networkInt, parsed2.networkInt)
        mask == prefixToMask(newPrefix)
        alignedNetwork == Ushr(BitAnd(lowerNetwork, mask), Num(0))
        higherNetwork == MathMax(parsed1.networkInt, parsed2.networkInt)
        mergedBroadcast == getBroadcastAddress(alignedNetwork, newPrefix)
        higherBroadcast == getBroadcastAddress(higherNetwork, parsed1.prefixLength)
    IN  IF ~NumEq(parsed1.prefixLength, parsed2.prefixLength) THEN Null
        ELSE IF ~NumEq(alignedNetwork, lowerNetwork) THEN Null
        ELSE IF NumLt(mergedBroadcast, higherBroadcast) THEN Null
        ELSE CidrText(intToIP(alignedNetwork), newPrefix)

\* Mutant of canMergeCIDRs: the first block is taken as the lower one and the
\* second as the higher one, Math.min and Math.max being missing.
canMergeCIDRs_FirstIsLower(cidr1, cidr2) ==
    LET parsed1 == parseCIDR(cidr1)
        parsed2 == parseCIDR(cidr2)
        broadcast1 == getBroadcastAddress(parsed1.networkInt, parsed1.prefixLength)
        broadcast2 == getBroadcastAddress(parsed2.networkInt, parsed2.prefixLength)
        areAdjacent == \/ NumEq(NumAdd(broadcast1, Num(1)), parsed2.networkInt)
                       \/ NumEq(NumAdd(broadcast2, Num(1)), parsed1.networkInt)
        newPrefix == NumSub(parsed1.prefixLength, Num(1))
        lowerNetwork == parsed1.networkInt
        mask == prefixToMask(newPrefix)
        alignedNetwork == Ushr(BitAnd(lowerNetwork, mask), Num(0))
        higherNetwork == parsed2.networkInt
        mergedBroadcast == getBroadcastAddress(alignedNetwork, newPrefix)
        higherBroadcast == getBroadcastAddress(higherNetwork, parsed1.prefixLength)
    IN  IF ~NumEq(parsed1.prefixLength, parsed2.prefixLength) THEN Null
        ELSE IF ~areAdjacent THEN Null
        ELSE IF ~NumEq(alignedNetwork, lowerNetwork) THEN Null
        ELSE IF NumLt(mergedBroadcast, higherBroadcast) THEN Null
        ELSE CidrText(intToIP(alignedNetwork), newPrefix)

canMergeCIDRs(cidr1, cidr2) ==
    LET parsed1 == parseCIDR(cidr1)
        parsed2 == parseCIDR(cidr2)
        broadcast1 == getBroadcastAddress(parsed1.networkInt, parsed1.prefixLength)
        broadcast2 == getBroadcastAddress(parsed2.networkInt, parsed2.prefixLength)
        areAdjacent == \/ NumEq(NumAdd(broadcast1, Num(1)), parsed2.networkInt)
                       \/ NumEq(NumAdd(broadcast2, Num(1)), parsed1.networkInt)
        newPrefix == NumSub(parsed1.prefixLength, Num(1))
        lowerNetwork == MathMin(parsed1.networkInt, parsed2.networkInt)
        mask == prefixToMask(newPrefix)
        alignedNetwork == Ushr(BitAnd(lowerNetwork, mask), Num(0))
        higherNetwork == MathMax(parsed1.networkInt, parsed2.networkInt)
        mergedBroadcast == getBroadcastAddress(alignedNetwork, newPrefix)
        higherBroadcast == getBroadcastAddress(higherNetwork, parsed1.prefixLength)
    IN  IF ~NumEq(parsed1.prefixLength, parsed2.prefixLength) THEN Null
        ELSE IF ~areAdjacent THEN Null
        ELSE IF ~NumEq(alignedNetwork, lowerNetwork) THEN Null
        ELSE IF NumLt(mergedBroadcast, higherBroadcast) THEN Null
        ELSE CidrText(intToIP(alignedNetwork), newPrefix)

\* Infinity: above every number the engine computes.
Infinity == <<2^20, 0>>

\* The first loop of calculateSupernet: [minNetwork, maxBroadcast] after the
\* cidrs from index k on, starting from acc.
RECURSIVE SupernetBounds(_, _, _)
SupernetBounds(cidrs, k, acc) ==
    IF k > Len(cidrs) THEN acc
    ELSE LET parsed == parseCIDR(cidrs[k])
             broadcast == getBroadcastAddress(parsed.networkInt, parsed.prefixLength)
         IN  SupernetBounds(cidrs, k + 1,
                 [minNetwork |-> IF NumLt(parsed.networkInt, acc.minNetwork)
                                 THEN parsed.networkInt ELSE acc.minNetwork,
                  maxBroadcast |-> IF NumLt(acc.maxBroadcast, broadcast)
                                   THEN broadcast ELSE acc.maxBroadcast])

\* Mutant of SupernetWiden: the test alignedBroadcast >= maxBroadcast is missing.
RECURSIVE SupernetWiden_NoBroadcastTest(_, _, _)
SupernetWiden_NoBroadcastTest(prefix, minNetwork, maxBroadcast) ==
    IF NumLt(Num(0), prefix)
    THEN LET mask == prefixToMask(prefix)
             alignedNetwork == BitAnd(minNetwork, mask)
         IN  IF NumLe(alignedNetwork, minNetwork)
             THEN [inLoop |-> TRUE, value |-> CidrText(intToIP(alignedNetwork), prefix)]
             ELSE SupernetWiden_NoBroadcastTest(NumSub(prefix, Num(1)), minNetwork, maxBroadcast)
    ELSE [inLoop |-> FALSE, value |-> <<"0", ".", "0", ".", "0", ".", "0", "/", "0">>]

\* The second loop of calculateSupernet: widen the prefix until the aligned
\* block covers [minNetwork, maxBroadcast].
RECURSIVE SupernetWiden(_, _, _)
SupernetWiden(prefix, minNetwork, maxBroadcast) ==
    IF NumLt(Num(0), prefix)
    THEN LET mask == prefixToMask(prefix)
             alignedNetwork == BitAnd(minNetwork, mask)
             alignedBroadcast == getBroadcastAddress(alignedNetwork, prefix)
         IN  IF NumLe(alignedNetwork, minNetwork) /\ NumLe(maxBroadcast, alignedBroadcast)
             THEN [inLoop |-> TRUE, value |-> CidrText(intToIP(alignedNetwork), prefix)]
             ELSE SupernetWiden(NumSub(prefix, Num(1)), minNetwork, maxBroadcast)
    ELSE [inLoop |-> FALSE, value |-> <<"0", ".", "0", ".", "0", ".", "0", "/", "0">>]

\* calculateSupernet with the place of its return statement: "empty", "single",
\* "loop" (inside the widening loop) or "fallback" (the final return).
calculateSupernetAt(cidrs) ==
    IF Len(cidrs) = 0 THEN [at |-> "empty", value |-> Null]
    ELSE IF Len(cidrs) = 1 THEN [at |-> "single", value |-> cidrs[1]]
    ELSE LET Place(w) == [at |-> IF w.inLoop THEN "loop" ELSE "fallback", value |-> w.value]
             Widen(minNetwork, maxBroadcast, range) ==
                 Place(SupernetWiden(NumSub(Num(32), CeilLog2(range)),
                                     minNetwork, maxBroadcast))
             Bounds(b) ==
                 Widen(b.minNetwork, b.maxBroadcast,
                       NumAdd(NumSub(b.maxBroadcast, b.minNetwork), Num(1)))
         IN  Bounds(SupernetBounds(cidrs, 1, [minNetwork |-> Infinity, maxBroadcast |-> Num(0)]))

calculateSupernet(cidrs) == calculateSupernetAt(cidrs).value

-----------------------------------------------------------------------------
(* validation.ts: IPv6 text forms                                          *)

IPV6_GROUPS == 8

StartsWith(s, t) == Len(s) >= Len(t) /\ SubSeq(s, 1, Len(t)) = t

isIPv6(input) == Includes(input, <<":">>)

expandIPv6(ip) ==
    LET trimmed == ToLowerCase(Trim(ip))
        Pad(groups) == Join([i \in 1..Len(groups) |-> PadStart(groups[i], 4, "0")], <<":">>)
    IN  IF Includes(trimmed, <<":", ":">>)
        THEN LET parts == Split(trimmed, <<":", ":">>)
                 left == IF parts[1] # <<>> THEN Split(parts[1], <<":">>) ELSE <<>>
                 right == IF Len(parts) >= 2 /\ parts[2] # <<>>
                          THEN Split(parts[2], <<":">>) ELSE <<>>
                 missing == IPV6_GROUPS - Len(left) - Len(right)
             IN  IF Len(parts) > 2 THEN Null
                 ELSE IF missing < 0 THEN Null
                 ELSE Pad(left \o [i \in 1..missing |-> <<"0">>] \o right)
        ELSE LET groups == Split(trimmed, <<":">>)
             IN  IF Len(groups) # IPV6_GROUPS THEN Null ELSE Pad(groups)

\* g.replace(/^0+/, "")
RECURSIVE StripLeadingZeros(_)
StripLeadingZeros(g) == IF g # <<>> /\ g[1] = "0" THEN StripLeadingZeros(Tail(g)) ELSE g

\* Mutant of LongestZeroRun: a run replaces the longest so far when it is as
\* long (>= for >), so the rightmost of the longest runs wins.
RECURSIVE LongestZeroRun_LastWins(_, _, _)
LongestZeroRun_LastWins(simplified, i, st) ==
    IF i >= Len(simplified)
    THEN (IF st.currentLength >= st.longestLength /\ st.currentLength > 0
          THEN [st EXCEPT !.longestStart = st.currentStart, !.longestLength = st.currentLength]
          ELSE st)
    ELSE IF simplified[i + 1] = <<"0">>
    THEN LongestZeroRun_LastWins(simplified, i + 1,
             IF st.currentStart = -1
             THEN [st EXCEPT !.currentStart = i, !.currentLength = 1]
             ELSE [st EXCEPT !.currentLength = st.currentLength + 1])
    ELSE LongestZeroRun_LastWins(simplified, i + 1,
             [longestStart |-> IF st.currentLength >= st.longestLength /\ st.currentLength > 0
                               THEN st.currentStart ELSE st.longestStart,
              longestLength |-> IF st.currentLength >= st.longestLength /\ st.currentLength > 0
                                THEN st.currentLength ELSE st.longestLength,
              currentStart |-> -1,
              currentLength |-> 0])

\* The scan of compressIPv6 for the longest run of "0" groups, from index i
\* (0-based) with the loop's four locals in st.
RECURSIVE LongestZeroRun(_, _, _)
LongestZeroRun(simplified, i, st) ==
    IF i >= Len(simplified)
    THEN (IF st.currentLength > st.longestLength
          THEN [st EXCEPT !.longestStart = st.currentStart, !.longestLength = st.currentLength]
          ELSE st)
    ELSE IF simplified[i + 1] = <<"0">>
    THEN LongestZeroRun(simplified, i + 1,
             IF st.currentStart = -1
             THEN [st EXCEPT !.currentStart = i, !.currentLength = 1]
             ELSE [st EXCEPT !.currentLength = st.currentLength + 1])
    ELSE LongestZeroRun(simplified, i + 1,
             [longestStart |-> IF st.currentLength > st.longestLength
                               THEN st.currentStart ELSE st.longestStart,
              longestLength |-> IF st.currentLength > st.longestLength
                                THEN st.currentLength ELSE st.longestLength,
              currentStart |-> -1,
              currentLength |-> 0])

\* Mutant of compressIPv6: a group of zeros is stripped to the empty text, the
\* || "0" being missing.
compressIPv6_NoOrZero(ip) ==
    LET Around(simplified, run) ==
            LET Glue(left, right) ==
                    IF Len(left) = 0 /\ Len(right) = 0 THEN <<":", ":">>
                    ELSE IF Len(left) = 0 THEN <<":", ":">> \o Join(right, <<":">>)
                    ELSE IF Len(right) = 0 THEN Join(left, <<":">>) \o <<":", ":">>
                    ELSE Join(left, <<":">>) \o <<":", ":">> \o Join(right, <<":">>)
            IN  IF run.longestLength >= 2
                THEN Glue(Slice(simplified, 0, run.longestStart),
                          Slice(simplified, run.longestStart + run.longestLength,
                                Len(simplified)))
                ELSE Join(simplified, <<":">>)
        Scan(simplified) ==
            Around(simplified,
                   LongestZeroRun(simplified, 0,
                       [longestStart |-> -1, longestLength |-> 0,
                        currentStart |-> -1, currentLength |-> 0]))
        OrZero(g) == g
        Simplify(groups) ==
            Scan([i \in 1..Len(groups) |-> OrZero(StripLeadingZeros(groups[i]))])
        Compress(expanded) ==
            IF expanded = Null THEN ip ELSE Simplify(Split(expanded, <<":">>))
    IN  Compress(expandIPv6(ip))

compressIPv6(ip) ==
    LET Around(simplified, run) ==
            LET Glue(left, right) ==
                    IF Len(left) = 0 /\ Len(right) = 0 THEN <<":", ":">>
                    ELSE IF Len(left) = 0 THEN <<":", ":">> \o Join(right, <<":">>)
                    ELSE IF Len(right) = 0 THEN Join(left, <<":">>) \o <<":", ":">>
                    ELSE Join(left, <<":">>) \o <<":", ":">> \o Join(right, <<":">>)
            IN  IF run.longestLength >= 2
                THEN Glue(Slice(simplified, 0, run.longestStart),
                          Slice(simplified, run.longestStart + run.longestLength,
                                Len(simplified)))
                ELSE Join(simplified, <<":">>)
        Scan(simplified) ==
            Around(simplified,
                   LongestZeroRun(simplified, 0,
                       [longestStart |-> -1, longestLength |-> 0,
                        currentStart |-> -1, currentLength |-> 0]))
        OrZero(g) == IF g = <<>> THEN <<"0">> ELSE g
        Simplify(groups) ==
            Scan([i \in 1..Len(groups) |-> OrZero(StripLeadingZeros(groups[i]))])
        Compress(expanded) ==
            IF expanded = Null THEN ip ELSE Simplify(Split(expanded, <<":">>))
    IN  Compress(expandIPv6(ip))

-----------------------------------------------------------------------------
(* utils.ts: IPv6                                                          *)

\* g.toString(16) for a group value g in 0 .. 0xFFFF, or NaN
GroupToHex(g) == IF IsNaN(g) THEN <<"N", "a", "N">> ELSE NatToDigits(g[2], 16)

parseIPv6(ip) ==
    LET expanded == expandIPv6(ip)
    IN  IF expanded = Null THEN <<>>
        ELSE LET parts == Split(expanded, <<":">>)
             IN  [i \in 1..Len(parts) |-> ParseInt(parts[i], 16)]

ipv6GroupsToHex(groups) ==
    Join([i \in 1..Len(groups) |-> PadStart(GroupToHex(groups[i]), 4, "0")], <<>>)

hexToIPv6Groups(hex) == [k \in 1..8 |-> ParseInt(Slice(hex, 4 * (k - 1), 4 * k), 16)]

ipv6GroupsToString(groups) ==
    compressIPv6(Join([i \in 1..Len(groups) |-> PadStart(GroupToHex(groups[i]), 4, "0")],
                      <<":">>))

\* hex.split("").map(c => parseInt(c, 16).toString(2).padStart(4, "0")).join("")
\* for a text of hex digits
HexToBinary(hex) ==
    Join([i \in 1..Len(hex) |-> PadStart(NatToDigits(DigitValue(hex[i]), 2), 4, "0")], <<>>)

\* The loop that turns 128 bits back into 32 hex digits.
BinaryToHex(bits) ==
    [k \in 1..32 |-> HexDigits[DigitsValue(Slice(bits, 4 * (k - 1), 4 * k), 2) + 1]]

\* binary.slice(0, prefix): a NaN end is read as 0
SliceTo(s, prefix) == IF IsNaN(prefix) THEN <<>> ELSE Slice(s, 0, ToNat(prefix))

getIPv6NetworkHex(ipHex, prefix) ==
    BinaryToHex(PadEnd(SliceTo(HexToBinary(ipHex), prefix), 128, "0"))

getIPv6BroadcastHex(networkHex, prefix) ==
    BinaryToHex(PadEnd(SliceTo(HexToBinary(networkHex), prefix), 128, "1"))

\* The decimal digits of m times the natural written by the decimal digits d,
\* plus carry (m <= 2^16).
RECURSIVE TimesDecimal(_, _, _)
TimesDecimal(d, m, carry) ==
    IF d = <<>> THEN (IF carry = 0 THEN <<>> ELSE NatToDigits(carry, 10))
    ELSE LET v == m * DigitValue(d[Len(d)]) + carry
         IN  TimesDecimal(SubSeq(d, 1, Len(d) - 1), m, v \div 10) \o <<DecDigits[(v % 10) + 1]>>

\* (BigInt(1) << BigInt(k)).toString(): the exact decimal digits of 2^k
RECURSIVE BigPow2(_)
BigPow2(k) ==
    IF k < 16 THEN NatToDigits(2^k, 10) ELSE TimesDecimal(BigPow2(k - 16), 2^16, 0)

calculateIPv6TotalHosts(prefix) ==
    IF NumEq(prefix, Num(128)) THEN <<"1">>
    ELSE BigPow2(ToNat(NumSub(Num(128), prefix)))

calculateIPv6UsableHosts(prefix) == calculateIPv6TotalHosts(prefix)

formatIPv6Binary(hex) ==
    LET binary == HexToBinary(hex)
    IN  Join([k \in 1..8 |-> Slice(binary, 16 * (k - 1), 16 * k)], <<":">>)

isPrivateIPv6(hex) ==
    \/ StartsWith(hex, <<"f", "c">>) \/ StartsWith(hex, <<"f", "d">>)
    \/ StartsWith(hex, <<"f", "e", "8">>) \/ StartsWith(hex, <<"f", "e", "9">>)
    \/ StartsWith(hex, <<"f", "e", "a">>) \/ StartsWith(hex, <<"f", "e", "b">>)

getIPv6Type(hex) ==
    IF hex = [i \in 1..32 |-> "0"] THEN "Unspecified"
    ELSE IF hex = [i \in 1..32 |-> IF i = 32 THEN "1" ELSE "0"] THEN "Loopback"
    ELSE IF StartsWith(hex, <<"f", "c">>) \/ StartsWith(hex, <<"f", "d">>)
    THEN "Unique Local (ULA)"
    ELSE IF \/ StartsWith(hex, <<"f", "e", "8">>) \/ StartsWith(hex, <<"f", "e", "9">>)
            \/ StartsWith(hex, <<"f", "e", "a">>) \/ StartsWith(hex, <<"f", "e", "b">>)
    THEN "Link-Local"
    ELSE IF StartsWith(hex, <<"f", "f">>) THEN "Multicast"
    ELSE IF StartsWith(hex, <<"2", "0", "0", "1">>) /\ Slice(hex, 4, 8) = <<"0", "d", "b", "8">>
    THEN "Documentation"
    ELSE IF StartsWith(hex, <<"2">>) THEN "Global Unicast"
    ELSE "Reserved"

\* The loop of incrementIPv6Hex from group index i (0-based) down.
RECURSIVE IncrementGroups(_, _)
IncrementGroups(groups, i) ==
    IF i < 0 THEN groups
    ELSE IF NumLt(groups[i + 1], Num(65535))
    THEN [groups EXCEPT ![i + 1] = NumAdd(groups[i + 1], Num(1))]
    ELSE IncrementGroups([groups EXCEPT ![i + 1] = Num(0)], i - 1)

incrementIPv6Hex(hex) ==
    LET groups == hexToIPv6Groups(hex)
    IN  ipv6GroupsToHex(IncrementGroups(groups, Len(groups) - 1))

\* The loop of decrementIPv6Hex from group index i (0-based) down.
RECURSIVE DecrementGroups(_, _)
DecrementGroups(groups, i) ==
    IF i < 0 THEN groups
    ELSE IF NumLt(Num(0), groups[i + 1])
    THEN [groups EXCEPT ![i + 1] = NumSub(groups[i + 1], Num(1))]
    ELSE DecrementGroups([groups EXCEPT ![i + 1] = Num(65535)], i - 1)

decrementIPv6Hex(hex) ==
    LET groups == hexToIPv6Groups(hex)
    IN  ipv6GroupsToHex(DecrementGroups(groups, Len(groups) - 1))

\* cidr.substring(0, lastSlash) and cidr.substring(lastSlash + 1), where
\* lastSlash = cidr.lastIndexOf("/") is -1 when the text holds no "/"
\* (substring reads a negative index as 0).
SplitIPv6CIDR(cidr) ==
    LET lastSlash == LastIndexOf(cidr, "/")
    IN  [ipStr |-> Slice(cidr, 0, IF lastSlash < 0 THEN 0 ELSE lastSlash),
         prefixStr |-> Slice(cidr, lastSlash + 1, Len(cidr))]

\* calculateIPv6CIDRRange(cidr) with the id that generateRangeId() returned
calculateIPv6CIDRRange(cidr, id) ==
    LET Range(prefix, networkHex, network, broadcast, firstUsable, lastUsable) ==
            [id |-> id,
             cidr |-> CidrText(network, prefix),
             networkAddress |-> network,
             broadcastAddress |-> broadcast,
             firstUsable |-> firstUsable,
             lastUsable |-> lastUsable,
             subnetMask |-> <<"/">> \o NumToString(prefix),
             wildcardMask |-> <<"/">> \o NumToString(NumSub(Num(128), prefix))
                              \o <<" ", "h", "o", "s", "t", " ", "b", "i", "t", "s">>,
             totalHosts |-> calculateIPv6TotalHosts(prefix),
             usableHosts |-> calculateIPv6UsableHosts(prefix),
             prefixLength |-> prefix,
             ipClass |-> getIPv6Type(networkHex),
             isPrivate |-> isPrivateIPv6(networkHex),
             binaryNetwork |-> formatIPv6Binary(networkHex),
             ipVersion |-> 6]
        Text(hex) == ipv6GroupsToString(hexToIPv6Groups(hex))
        Usable(prefix, networkHex, broadcastHex, firstUsableHex, lastUsableHex) ==
            IF NumEq(prefix, Num(128))
            THEN Range(prefix, networkHex, Text(networkHex), Text(broadcastHex),
                       Text(networkHex), Text(broadcastHex))
            ELSE Range(prefix, networkHex, Text(networkHex), Text(broadcastHex),
                       Text(firstUsableHex), Text(lastUsableHex))
        Ends(prefix, networkHex, broadcastHex) ==
            Usable(prefix, networkHex, broadcastHex,
                   incrementIPv6Hex(networkHex), decrementIPv6Hex(broadcastHex))
        Network(prefix, networkHex) ==
            Ends(prefix, networkHex, getIPv6BroadcastHex(networkHex, prefix))
        Parsed(ipStr, prefix) ==
            Network(prefix, getIPv6NetworkHex(ipv6GroupsToHex(parseIPv6(ipStr)), prefix))
        Halves(sp) == Parsed(sp.ipStr, ParseInt(sp.prefixStr, 10))
    IN  Halves(SplitIPv6CIDR(cidr))

normalizeIPv6CIDR(cidr) ==
    LET sp == SplitIPv6CIDR(cidr)
        prefix == ParseInt(sp.prefixStr, 10)
        networkHex == getIPv6NetworkHex(ipv6GroupsToHex(parseIPv6(sp.ipStr)), prefix)
    IN  CidrText(ipv6GroupsToString(hexToIPv6Groups(networkHex)), prefix)

calculateUniversalCIDRRange(cidr, id) ==
    IF isIPv6(Split(cidr, <<"/">>)[1]) THEN calculateIPv6CIDRRange(cidr, id)
    ELSE calculateCIDRRange(cidr, id)

normalizeUniversalCIDR(cidr) ==
    IF isIPv6(Split(cidr, <<"/">>)[1]) THEN normalizeIPv6CIDR(cidr) ELSE normalizeCIDR(cidr)


\* compareHex: for two texts of lower-case hex digits of one length,
\* localeCompare orders them as their digits' values do.
RECURSIVE LocaleCompareHex(_, _)
LocaleCompareHex(a, b) ==
    IF a = <<>> \/ b = <<>> THEN (IF a = b THEN 0 ELSE IF a = <<>> THEN -1 ELSE 1)
    ELSE IF a[1] = b[1] THEN LocaleCompareHex(Tail(a), Tail(b))
    ELSE IF DigitValue(a[1]) < DigitValue(b[1]) THEN -1 ELSE 1

compareHex(a, b) == IF Len(a) # Len(b) THEN Len(a) - Len(b) ELSE LocaleCompareHex(a, b)

\* Mutant of checkIPv6Overlap: the second test compares the starts only.
checkIPv6Overlap_StartOnly(range1, range2) ==
    LET sp1 == SplitIPv6CIDR(range1.cidr)
        sp2 == SplitIPv6CIDR(range2.cidr)
        prefix1 == ParseInt(sp1.prefixStr, 10)
        prefix2 == ParseInt(sp2.prefixStr, 10)
        hex1 == ipv6GroupsToHex(parseIPv6(sp1.ipStr))
        hex2 == ipv6GroupsToHex(parseIPv6(sp2.ipStr))
        network1Start == getIPv6NetworkHex(hex1, prefix1)
        network1End == getIPv6BroadcastHex(network1Start, prefix1)
        network2Start == getIPv6NetworkHex(hex2, prefix2)
        network2End == getIPv6BroadcastHex(network2Start, prefix2)
    IN  IF compareHex(network1Start, network2Start) <= 0 /\ compareHex(network1End, network2End) >= 0
        THEN Overlap(range1, range2, "contains")
        ELSE IF compareHex(network2Start, network1Start) <= 0
        THEN Overlap(range1, range2, "contained")
        ELSE IF \/ /\ compareHex(network1Start, network2End) <= 0
                   /\ compareHex(network1End, network2Start) >= 0
                \/ /\ compareHex(network2Start, network1End) <= 0
                   /\ compareHex(network2End, network1Start) >= 0
        THEN Overlap(range1, range2, "partial")
        ELSE NoOverlap

checkIPv6Overlap(range1, range2) ==
    LET sp1 == SplitIPv6CIDR(range1.cidr)
        sp2 == SplitIPv6CIDR(range2.cidr)
        prefix1 == ParseInt(sp1.prefixStr, 10)
        prefix2 == ParseInt(sp2.prefixStr, 10)
        hex1 == ipv6GroupsToHex(parseIPv6(sp1.ipStr))
        hex2 == ipv6GroupsToHex(parseIPv6(sp2.ipStr))
        network1Start == getIPv6NetworkHex(hex1, prefix1)
        network1End == getIPv6BroadcastHex(network1Start, prefix1)
        network2Start == getIPv6NetworkHex(hex2, prefix2)
        network2End == getIPv6BroadcastHex(network2Start, prefix2)
    IN  IF compareHex(network1Start, network2Start) <= 0 /\ compareHex(network1End, network2End) >= 0
        THEN Overlap(range1, range2, "contains")
        ELSE IF /\ compareHex(network2Start, network1Start) <= 0
                /\ compareHex(network2End, network1End) >= 0
        THEN Overlap(range1, range2, "contained")
        ELSE IF \/ /\ compareHex(network1Start, network2End) <= 0
                   /\ compareHex(network1End, network2Start) >= 0
                \/ /\ compareHex(network2Start, network1End) <= 0
                   /\ compareHex(network2End, network1Start) >= 0
        THEN Overlap(range1, range2, "partial")
        ELSE NoOverlap

checkOverlap(range1, range2) ==
    IF range1.ipVersion # range2.ipVersion THEN NoOverlap
    ELSE IF range1.ipVersion = 6 THEN checkIPv6Overlap(range1, range2)
    ELSE checkIPv4Overlap(range1, range2)

-----------------------------------------------------------------------------
(* calculator.ts: suggestRanges                                            *)

prefixesToTry == <<24, 25, 26, 27, 28>>

\* The starting points of suggestRanges: the three private blocks, or 0.
startingPoints(preferPrivate) ==
    IF preferPrivate
    THEN <<ipToInt(parseIP(<<"1", "0", ".", "0", ".", "0", ".", "0">>)),
           ipToInt(parseIP(<<"1", "7", "2", ".", "1", "6", ".", "0", ".", "0">>)),
           ipToInt(parseIP(<<"1", "9", "2", ".", "1", "6", "8", ".", "0", ".", "0">>))>>
    ELSE <<Num(0)>>

\* An interpolated message: the template and the text put in its place {}.
Message(msg, arg) == [msg |-> msg, arg |-> arg]

\* The reason suggestRanges gives for a suggested address.
SuggestReason(suggestedInt, prefix) ==
    IF /\ NumLe(ipToInt(parseIP(<<"1", "0", ".", "0", ".", "0", ".", "0">>)), suggestedInt)
       /\ NumLe(suggestedInt,
                ipToInt(parseIP(<<"1", "0", ".", "2", "5", "5", ".", "2", "5", "5", ".", "2", "5", "5">>)))
    THEN Message("Available in 10.0.0.0/8 private range", <<>>)
    ELSE IF /\ NumLe(ipToInt(parseIP(<<"1", "7", "2", ".", "1", "6", ".", "0", ".", "0">>)),
                     suggestedInt)
            /\ NumLe(suggestedInt,
                     ipToInt(parseIP(<<"1", "7", "2", ".", "3", "1", ".", "2", "5", "5", ".", "2", "5", "5">>)))
    THEN Message("Available in 172.16.0.0/12 private range", <<>>)
    ELSE IF /\ NumLe(ipToInt(parseIP(<<"1", "9", "2", ".", "1", "6", "8", ".", "0", ".", "0">>)),
                     suggestedInt)
            /\ NumLe(suggestedInt,
                     ipToInt(parseIP(<<"1", "9", "2", ".", "1", "6", "8", ".", "2", "5", "5", ".", "2", "5", "5">>)))
    THEN Message("Available in 192.168.0.0/16 private range", <<>>)
    ELSE Message("Available /{} block", NumToString(prefix))

\* Mutant of SuggestFrom: the block is looked for without the existing ranges.
RECURSIVE SuggestFrom_IgnoreExisting(_, _, _)
SuggestFrom_IgnoreExisting(startPoint, k, existingRanges) ==
    IF k > Len(prefixesToTry) THEN <<>>
    ELSE LET Push(prefix, suggested) ==
                 IF suggested = Null
                 THEN SuggestFrom_IgnoreExisting(startPoint, k + 1, existingRanges)
                 ELSE <<[cidr |-> suggested,
                         reason |-> SuggestReason(ipToInt(parseIP(Split(suggested, <<"/">>)[1])),
                                                  prefix),
                         totalHosts |-> calculateTotalHosts(prefix),
                         usableHosts |-> calculateUsableHosts(prefix)]>>
         IN  Push(Num(prefixesToTry[k]),
                  findNextAvailableBlock(startPoint, Num(prefixesToTry[k]), <<>>))

\* The inner loop of suggestRanges from index k of prefixesToTry: the one
\* suggestion pushed for this starting point (the loop breaks after it), or none.
RECURSIVE SuggestFrom(_, _, _)
SuggestFrom(startPoint, k, existingRanges) ==
    IF k > Len(prefixesToTry) THEN <<>>
    ELSE LET Push(prefix, suggested) ==
                 IF suggested = Null
                 THEN SuggestFrom(startPoint, k + 1, existingRanges)
                 ELSE <<[cidr |-> suggested,
                         reason |-> SuggestReason(ipToInt(parseIP(Split(suggested, <<"/">>)[1])),
                                                  prefix),
                         totalHosts |-> calculateTotalHosts(prefix),
                         usableHosts |-> calculateUsableHosts(prefix)]>>
         IN  Push(Num(prefixesToTry[k]),
                  findNextAvailableBlock(startPoint, Num(prefixesToTry[k]), existingRanges))

\* The outer loop of suggestRanges from index j of the starting points.
RECURSIVE SuggestAll(_, _, _)
SuggestAll(points, j, existingRanges) ==
    IF j > Len(points) THEN <<>>
    ELSE SuggestFrom(points[j], 1, existingRanges) \o SuggestAll(points, j + 1, existingRanges)

suggestRanges(existingRanges, preferPrivate) ==
    Slice(SuggestAll(startingPoints(preferPrivate), 1, existingRanges), 0, 5)

-----------------------------------------------------------------------------
(* validation.ts: validators                                               *)

\* The JS values a validator can be handed: a text, a number (its integer part
\* and its tenths, so that 24.5 is JSNumber(Num(24), 5)), null and undefined.
JSString(s) == [type |-> "string", value |-> s]

JSNumber(n, tenths) == [type |-> "number", value |-> n, tenths |-> tenths]

JSNull == [type |-> "null"]

JSUndefined == [type |-> "undefined"]

\* !v is false
Truthy(v) ==
    CASE v.type = "string" -> v.value # <<>>
      [] v.type = "number" -> ~IsNaN(v.value) /\ (v.value # Num(0) \/ v.tenths # 0)
      [] OTHER -> FALSE

\* The outcome of a call that throws: a method called on a value that has none
\* (v.trim() or v.split() on a value that is no text).
Thrown == [thrown |-> "TypeError"]

\* The CIDRValidationResult values.
Valid == [valid |-> TRUE]

Invalid(msg, arg) == [valid |-> FALSE, error |-> Message(msg, arg)]

MIN_PREFIX_LENGTH == 0

MAX_PREFIX_LENGTH == 32

MAX_IP_VALUE == 255

IP_OCTETS == 4

IPV6_MAX_PREFIX_LENGTH == 128

IPV6_MAX_GROUP_VALUE == 65535

\* /^\d+$/.test(s)
IsDigits(s) == s # <<>> /\ \A i \in 1..Len(s) : IsDecDigit(s[i])

\* Mutant of ValidateOctets: the test for leading zeros is missing.
RECURSIVE ValidateOctets_NoLeadingZeroTest(_, _)
ValidateOctets_NoLeadingZeroTest(octets, i) ==
    IF i > Len(octets) THEN Valid
    ELSE IF octets[i] = <<>> THEN Invalid("Octet {} is empty", NumToString(Num(i)))
    ELSE IF ~IsDigits(octets[i])
    THEN Invalid("Octet {} is not a valid number", NumToString(Num(i)))
    ELSE IF \/ IsNaN(ParseInt(octets[i], 10))
            \/ NumLt(ParseInt(octets[i], 10), Num(0))
            \/ NumLt(Num(MAX_IP_VALUE), ParseInt(octets[i], 10))
    THEN Invalid("Octet {} must be between 0 and 255", NumToString(Num(i)))
    ELSE ValidateOctets_NoLeadingZeroTest(octets, i + 1)

\* The loop of validateIPAddress from octet i (1-based).
RECURSIVE ValidateOctets(_, _)
ValidateOctets(octets, i) ==
    IF i > Len(octets) THEN Valid
    ELSE IF octets[i] = <<>> THEN Invalid("Octet {} is empty", NumToString(Num(i)))
    ELSE IF Len(octets[i]) > 1 /\ StartsWith(octets[i], <<"0">>)
    THEN Invalid("Octet {} has leading zeros", NumToString(Num(i)))
    ELSE IF ~IsDigits(octets[i])
    THEN Invalid("Octet {} is not a valid number", NumToString(Num(i)))
    ELSE IF \/ IsNaN(ParseInt(octets[i], 10))
            \/ NumLt(ParseInt(octets[i], 10), Num(0))
            \/ NumLt(Num(MAX_IP_VALUE), ParseInt(octets[i], 10))
    THEN Invalid("Octet {} must be between 0 and 255", NumToString(Num(i)))
    ELSE ValidateOctets(octets, i + 1)

validateIPAddress(ip) ==
    IF ~Truthy(ip) \/ ip.type # "string" THEN Invalid("IP address is required", <<>>)
    ELSE LET OfOctets(octets) ==
                 IF Len(octets) # IP_OCTETS
                 THEN Invalid("IP address must have exactly 4 octets", <<>>)
                 ELSE ValidateOctets(octets, 1)
             OfTrimmed(trimmed) ==
                 IF trimmed = <<>> THEN Invalid("IP address cannot be empty", <<>>)
                 ELSE OfOctets(Split(trimmed, <<".">>))
         IN  IF ip.type # "string" THEN Thrown ELSE OfTrimmed(Trim(ip.value))

\* isNaN(v): v converted to a number is NaN.
GlobalIsNaN(v) ==
    CASE v.type = "string" -> IsNaN(StrToNumber(v.value))
      [] v.type = "number" -> IsNaN(v.value)
      [] v.type = "null" -> FALSE
      [] OTHER -> TRUE

\* Number.isInteger(v)
NumberIsInteger(v) ==
    v.type = "number" /\ ~IsNaN(v.value) /\ v.value # Infinity /\ v.tenths = 0

\* The bounds test of validatePrefixLength on an integer prefixNum.
PrefixInRange(prefixNum, min, max, msg) ==
    IF NumLt(prefixNum.value, Num(min)) \/ NumLt(Num(max), prefixNum.value)
    THEN Invalid(msg, <<>>)
    ELSE Valid

\* The tests of validatePrefixLength on prefixNum.
ValidatePrefixNum(prefixNum, min, max, msg) ==
    IF GlobalIsNaN(prefixNum) THEN Invalid("Prefix length must be a number", <<>>)
    ELSE IF ~NumberIsInteger(prefixNum) THEN Invalid("Prefix length must be an integer", <<>>)
    ELSE PrefixInRange(prefixNum, min, max, msg)

\* typeof prefix === "string" ? parseInt(prefix, 10) : prefix
PrefixNum(prefix) ==
    IF prefix.type = "string" THEN JSNumber(ParseInt(prefix.value, 10), 0) ELSE prefix

validatePrefixLength(prefix) ==
    ValidatePrefixNum(PrefixNum(prefix), MIN_PREFIX_LENGTH, MAX_PREFIX_LENGTH,
                      "Prefix length must be between 0 and 32")

validateCIDR(cidr) ==
    IF ~Truthy(cidr) \/ cidr.type # "string" THEN Invalid("CIDR notation is required", <<>>)
    ELSE LET Both(ipValidation, prefixStr) ==
                 IF ~ipValidation.valid THEN ipValidation
                 ELSE IF ~validatePrefixLength(JSString(prefixStr)).valid
                 THEN validatePrefixLength(JSString(prefixStr))
                 ELSE Valid
             OfParts(parts) ==
                 IF Len(parts) = 1
                 THEN (IF ~validateIPAddress(JSString(parts[1])).valid
                       THEN validateIPAddress(JSString(parts[1]))
                       ELSE Valid)
                 ELSE IF Len(parts) # 2
                 THEN Invalid("CIDR must be in format IP/prefix (e.g., 192.168.1.0/24)", <<>>)
                 ELSE Both(validateIPAddress(JSString(parts[1])), parts[2])
             OfTrimmed(trimmed) ==
                 IF trimmed = <<>> THEN Invalid("CIDR notation cannot be empty", <<>>)
                 ELSE OfParts(Split(trimmed, <<"/">>))
         IN  IF cidr.type # "string" THEN Thrown ELSE OfTrimmed(Trim(cidr.value))

\* Mutant of validateCIDRAlignment: the prefix === 0 case of the mask is missing.
validateCIDRAlignment_NoZeroCase(cidr) ==
    IF ~validateCIDR(cidr).valid THEN validateCIDR(cidr)
    ELSE LET Aligned(ipInt, networkInt, prefix) ==
                 IF ipInt # networkInt
                 THEN Invalid("IP address is not aligned with the prefix. Did you mean {}?",
                              Join(<<NumToString(BitAnd(Ushr(networkInt, Num(24)), Num(255))),
                                     NumToString(BitAnd(Ushr(networkInt, Num(16)), Num(255))),
                                     NumToString(BitAnd(Ushr(networkInt, Num(8)), Num(255))),
                                     NumToString(BitAnd(networkInt, Num(255)))>>, <<".">>)
                                  \o <<"/">> \o NumToString(prefix))
                 ELSE Valid
             Masked(ipInt, mask, prefix) ==
                 Aligned(ipInt, Ushr(BitAnd(ipInt, mask), Num(0)), prefix)
             OfOctets(octets, prefix) ==
                 Masked(Ushr(BitOr(BitOr(BitOr(Shl(At(octets, 0), Num(24)),
                                               Shl(At(octets, 1), Num(16))),
                                         Shl(At(octets, 2), Num(8))),
                                   At(octets, 3)),
                             Num(0)),
                        Ushr(Shl(BitNot(Num(0)), NumSub(Num(32), prefix)), Num(0)),
                        prefix)
             OfParts(sp) ==
                 OfOctets([i \in 1..Len(Split(sp.ipStr, <<".">>)) |->
                              StrToNumber(Split(sp.ipStr, <<".">>)[i])],
                          ParseInt(sp.prefixStr, 10))
         IN  IF cidr.type # "string" THEN Thrown ELSE OfParts(SplitCIDR2(cidr.value))

validateCIDRAlignment(cidr) ==
    IF ~validateCIDR(cidr).valid THEN validateCIDR(cidr)
    ELSE LET Aligned(ipInt, networkInt, prefix) ==
                 IF ipInt # networkInt
                 THEN Invalid("IP address is not aligned with the prefix. Did you mean {}?",
                              Join(<<NumToString(BitAnd(Ushr(networkInt, Num(24)), Num(255))),
                                     NumToString(BitAnd(Ushr(networkInt, Num(16)), Num(255))),
                                     NumToString(BitAnd(Ushr(networkInt, Num(8)), Num(255))),
                                     NumToString(BitAnd(networkInt, Num(255)))>>, <<".">>)
                                  \o <<"/">> \o NumToString(prefix))
                 ELSE Valid
             Masked(ipInt, mask, prefix) ==
                 Aligned(ipInt, Ushr(BitAnd(ipInt, mask), Num(0)), prefix)
             OfOctets(octets, prefix) ==
                 Masked(Ushr(BitOr(BitOr(BitOr(Shl(At(octets, 0), Num(24)),
                                               Shl(At(octets, 1), Num(16))),
                                         Shl(At(octets, 2), Num(8))),
                                   At(octets, 3)),
                             Num(0)),
                        IF NumEq(prefix, Num(0)) THEN Num(0)
                        ELSE Ushr(Shl(BitNot(Num(0)), NumSub(Num(32), prefix)), Num(0)),
                        prefix)
             OfParts(sp) ==
                 OfOctets([i \in 1..Len(Split(sp.ipStr, <<".">>)) |->
                              StrToNumber(Split(sp.ipStr, <<".">>)[i])],
                          ParseInt(sp.prefixStr, 10))
         IN  IF cidr.type # "string" THEN Thrown ELSE OfParts(SplitCIDR2(cidr.value))

\* /^[0-9a-f]{1,4}$/i.test(group)
IsHexGroup(group) ==
    /\ Len(group) \in 1..4
    /\ \A i \in 1..Len(group) : IsHexDigit(ToLowerCase(group)[i])

\* The loop of validateIPv6Address from group i (1-based).
RECURSIVE ValidateGroups(_, _)
ValidateGroups(groups, i) ==
    IF i > Len(groups) THEN Valid
    ELSE IF ~IsHexGroup(groups[i])
    THEN Invalid("Group {} is not valid hexadecimal", NumToString(Num(i)))
    ELSE IF \/ IsNaN(ParseInt(groups[i], 16))
            \/ NumLt(ParseInt(groups[i], 16), Num(0))
            \/ NumLt(Num(IPV6_MAX_GROUP_VALUE), ParseInt(groups[i], 16))
    THEN Invalid("Group {} must be between 0 and ffff", NumToString(Num(i)))
    ELSE ValidateGroups(groups, i + 1)

validateIPv6Address(ip) ==
    IF ~Truthy(ip) \/ ip.type # "string" THEN Invalid("IPv6 address is required", <<>>)
    ELSE LET OfExpanded(expanded) ==
                 IF expanded = Null \/ expanded = <<>> THEN Invalid("Invalid IPv6 format", <<>>)
                 ELSE ValidateGroups(Split(expanded, <<":">>), 1)
             OfTrimmed(trimmed) ==
                 IF trimmed = <<>> THEN Invalid("IPv6 address cannot be empty", <<>>)
                 ELSE OfExpanded(expandIPv6(trimmed))
         IN  IF ip.type # "string" THEN Thrown
             ELSE OfTrimmed(ToLowerCase(Trim(ip.value)))

validateIPv6PrefixLength(prefix) ==
    ValidatePrefixNum(PrefixNum(prefix), 0, IPV6_MAX_PREFIX_LENGTH,
                      "IPv6 prefix length must be between 0 and 128")

validateIPv6CIDR(cidr) ==
    IF ~Truthy(cidr) \/ cidr.type # "string"
    THEN Invalid("IPv6 CIDR notation is required", <<>>)
    ELSE LET Both(ipValidation, prefix) ==
                 IF ~ipValidation.valid THEN ipValidation
                 ELSE IF ~validateIPv6PrefixLength(JSString(prefix)).valid
                 THEN validateIPv6PrefixLength(JSString(prefix))
                 ELSE Valid
             OfSlash(trimmed, lastSlash) ==
                 IF lastSlash = -1
                 THEN (IF ~validateIPv6Address(JSString(trimmed)).valid
                       THEN validateIPv6Address(JSString(trimmed))
                       ELSE Valid)
                 ELSE Both(validateIPv6Address(JSString(Slice(trimmed, 0, lastSlash))),
                           Slice(trimmed, lastSlash + 1, Len(trimmed)))
             OfTrimmed(trimmed) ==
                 IF trimmed = <<>> THEN Invalid("IPv6 CIDR notation cannot be empty", <<>>)
                 ELSE OfSlash(trimmed, LastIndexOf(trimmed, "/"))
         IN  IF cidr.type # "string" THEN Thrown ELSE OfTrimmed(Trim(cidr.value))

\* Mutant of validateUniversalCIDR: the typeof test of the first guard is missing.
validateUniversalCIDR_NoTypeTest(cidr) ==
    IF ~Truthy(cidr) THEN Invalid("CIDR notation is required", <<>>)
    ELSE LET OfTrimmed(trimmed) ==
                 IF trimmed = <<>> THEN Invalid("CIDR notation cannot be empty", <<>>)
                 ELSE IF isIPv6(Split(trimmed, <<"/">>)[1])
                 THEN validateIPv6CIDR(JSString(trimmed))
                 ELSE validateCIDR(JSString(trimmed))
         IN  IF cidr.type # "string" THEN Thrown ELSE OfTrimmed(Trim(cidr.value))

validateUniversalCIDR(cidr) ==
    IF ~Truthy(cidr) \/ cidr.type # "string" THEN Invalid("CIDR notation is required", <<>>)
    ELSE LET OfTrimmed(trimmed) ==
                 IF trimmed = <<>> THEN Invalid("CIDR notation cannot be empty", <<>>)
                 ELSE IF isIPv6(Split(trimmed, <<"/">>)[1])
                 THEN validateIPv6CIDR(JSString(trimmed))
                 ELSE validateCIDR(JSString(trimmed))
         IN  IF cidr.type # "string" THEN Thrown ELSE OfTrimmed(Trim(cidr.value))

-----------------------------------------------------------------------------
(* Inputs                                                                  *)

\* The text "a.b.c.d" of four octet values.
Addr(a, b, c, d) ==
    Join(<<NatToDigits(a, 10), NatToDigits(b, 10), NatToDigits(c, 10), NatToDigits(d, 10)>>,
         <<".">>)

\* The text "ip/p" of an address text and a prefix length.
Cidr(ip, p) == ip \o <<"/">> \o NatToDigits(p, 10)

AddrPool ==
    <<Addr(128, 0, 0, 0), Addr(127, 255, 255, 255), Addr(0, 0, 0, 0),
      Addr(255, 255, 255, 255), Addr(192, 168, 0, 0), Addr(192, 168, 0, 128),
      Addr(192, 168, 1, 0), Addr(192, 168, 2, 77), Addr(10, 1, 2, 3),
      Addr(85, 85, 85, 85), Addr(170, 170, 170, 170), Addr(172, 16, 0, 1),
      Addr(224, 0, 0, 1), Addr(1, 2, 3, 4), Addr(255, 255, 255, 254),
      Addr(169, 254, 7, 1), Addr(100, 64, 0, 0)>>

IPv6Pool ==
    <<<<"2", "0", "0", "1", ":", "d", "b", "8", ":", ":">>,
      <<":", ":">>,
      <<":", ":", "1">>,
      <<"f", "e", "8", "0", ":", ":", "f", "f", "f", "f">>,
      <<"f", "f", "f", "f", ":", "f", "f", "f", "f", ":", "f", "f", "f", "f", ":", "f", "f", "f", "f", ":", "f", "f", "f", "f", ":", "f", "f", "f", "f", ":", "f", "f", "f", "f", ":", "f", "f", "f", "f">>,
      <<"f", "d", "0", "0", ":", "0", ":", "0", ":", "1", ":", ":">>,
      <<"1", ":", "2", ":", "3", ":", "4", ":", "5", ":", "6", ":", "7", ":", "8">>,
      <<"2", "0", "0", "1", ":", "d", "b", "8", ":", "0", ":", "0", ":", "1", ":", ":", "f", "f", "f", "f">>,
      <<"8", "0", "0", "0", ":", ":">>,
      <<"7", "f", "f", "f", ":", "f", "f", "f", "f", ":", "f", "f", "f", "f", ":", "f", "f", "f", "f", ":", "f", "f", "f", "f", ":", "f", "f", "f", "f", ":", "f", "f", "f", "f", ":", "f", "f", "f", "f">>>>

\* How many addresses of AddrPool the single-range operations are run on.
NumAddrs == 12

\* How many addresses of AddrPool the operations on two ranges are run on.
NumPairAddrs == 8

\* How many addresses of IPv6Pool are used.
NumIPv6Addrs == 6

Addrs == {AddrPool[i] : i \in 1..NumAddrs}

PairAddrs == {AddrPool[i] : i \in 1..NumPairAddrs}

IPv6Addrs == {IPv6Pool[i] : i \in 1..NumIPv6Addrs}

Prefixes == 0..32

IPv6Prefixes == 0..128

\* How many addresses of IPv6Pool the operations on two ranges are run on.
NumIPv6PairAddrs == 4

\* How many addresses of AddrPool the lists of three CIDRs are drawn from.
NumTripleAddrs == 4

\* splitCIDR is run with newPrefix - prefix up to MaxSplitBits.
MaxSplitBits == 5

\* How many addresses of AddrPool findNextAvailableBlock starts after.
NumAfterAddrs == 5

\* The longest existingRanges list given to findNextAvailableBlock.
MaxRanges == 2

PairPrefixes == {0, 1, 8, 16, 23, 24, 25, 31, 32}

TriplePrefixes == {1, 24, 32}

IPv6PairPrefixes == {0, 1, 32, 64, 127, 128}

FindNextPrefixes == {0, 1, 2, 8, 24, 25, 30, 31, 32}

PairCidrs == {Cidr(ip, p) : ip \in PairAddrs, p \in PairPrefixes}

TripleCidrs == {Cidr(AddrPool[i], p) : i \in 1..NumTripleAddrs, p \in TriplePrefixes}

IPv6PairCidrs == {Cidr(IPv6Pool[i], p) : i \in 1..NumIPv6PairAddrs, p \in IPv6PairPrefixes}

\* The existing ranges findNextAvailableBlock is run against.
ExistingCidrs ==
    {Cidr(Addr(0, 0, 0, 0), 1), Cidr(Addr(128, 0, 0, 0), 2),
     Cidr(Addr(192, 168, 0, 0), 24), Cidr(Addr(192, 168, 0, 128), 25),
     Cidr(Addr(192, 168, 1, 0), 24), Cidr(Addr(192, 168, 2, 77), 30),
     Cidr(Addr(127, 255, 255, 255), 32), Cidr(Addr(255, 255, 255, 254), 31)}

\* The ids generateRangeId() may return.
RangeIds == {"cidr-1", "cidr-2"}

-----------------------------------------------------------------------------
(* Operations: a call is drawn in the initial state and the action of the  *)
(* called function computes its result.                                    *)

Call(f, a) == pc = "call" /\ fn = f /\ args = a /\ ret = <<>>

Returned(f) == pc = "done" /\ fn = f

\* prefixToMask, getNetworkAddress and getBroadcastAddress of one address and prefix
NetworkCalc ==
    /\ pc = "call"
    /\ fn = "getNetworkAddress"
    /\ ret' = [mask |-> prefixToMask(args.prefix),
               network |-> getNetworkAddress(args.ipInt, args.prefix),
               broadcast |-> getBroadcastAddress(args.ipInt, args.prefix)]
    /\ pc' = "done"
    /\ UNCHANGED <<fn, args>>

\* calculateTotalHosts and calculateUsableHosts of one prefix
HostCalc ==
    /\ pc = "call"
    /\ fn = "calculateTotalHosts"
    /\ ret' = [totalHosts |-> calculateTotalHosts(args.prefix),
               usableHosts |-> calculateUsableHosts(args.prefix)]
    /\ pc' = "done"
    /\ UNCHANGED <<fn, args>>

CalculateCIDRRange ==
    /\ pc = "call"
    /\ fn = "calculateCIDRRange"
    /\ \E id \in RangeIds : ret' = calculateCIDRRange(args.cidr, id)
    /\ pc' = "done"
    /\ UNCHANGED <<fn, args>>

CalculateIPv6CIDRRange ==
    /\ pc = "call"
    /\ fn = "calculateIPv6CIDRRange"
    /\ \E id \in RangeIds : ret' = calculateIPv6CIDRRange(args.cidr, id)
    /\ pc' = "done"
    /\ UNCHANGED <<fn, args>>

InitUtils ==
    \/ \E ip \in Addrs, p \in Prefixes :
           Call("getNetworkAddress", [ipInt |-> ipToInt(parseIP(ip)), prefix |-> Num(p)])
    \/ \E p \in Prefixes : Call("calculateTotalHosts", [prefix |-> Num(p)])
    \/ \E ip \in Addrs, p \in Prefixes : Call("calculateCIDRRange", [cidr |-> Cidr(ip, p)])

NextUtils == NetworkCalc \/ HostCalc \/ CalculateCIDRRange

SpecUtils == InitUtils /\ [][NextUtils]_vars

InitIPv6 ==
    \E ip \in IPv6Addrs, p \in IPv6Prefixes :
        Call("calculateIPv6CIDRRange", [cidr |-> Cidr(ip, p)])

NextIPv6 == CalculateIPv6CIDRRange

SpecIPv6 == InitIPv6 /\ [][NextIPv6]_vars

CheckOverlap ==
    /\ pc = "call"
    /\ fn = "checkOverlap"
    /\ ret' = checkOverlap(args.range1, args.range2)
    /\ pc' = "done"
    /\ UNCHANGED <<fn, args>>

\* The ranges the page holds: each made by calculateUniversalCIDRRange.
Ranges1 == {calculateUniversalCIDRRange(c, "cidr-1") : c \in PairCidrs \cup IPv6PairCidrs}

Ranges2 == {calculateUniversalCIDRRange(c, "cidr-2") : c \in PairCidrs \cup IPv6PairCidrs}

InitOverlap ==
    \E r1 \in Ranges1, r2 \in Ranges2 : Call("checkOverlap", [range1 |-> r1, range2 |-> r2])

NextOverlap == CheckOverlap

SpecOverlap == InitOverlap /\ [][NextOverlap]_vars

CanMergeCIDRs ==
    /\ pc = "call"
    /\ fn = "canMergeCIDRs"
    /\ ret' = canMergeCIDRs(args.cidr1, args.cidr2)
    /\ pc' = "done"
    /\ UNCHANGED <<fn, args>>

InitMerge ==
    \E c1 \in PairCidrs, c2 \in PairCidrs : Call("canMergeCIDRs", [cidr1 |-> c1, cidr2 |-> c2])

NextMerge == CanMergeCIDRs

SpecMerge == InitMerge /\ [][NextMerge]_vars

CalculateSupernet ==
    /\ pc = "call"
    /\ fn = "calculateSupernet"
    /\ ret' = calculateSupernetAt(args.cidrs)
    /\ pc' = "done"
    /\ UNCHANGED <<fn, args>>

InitSupernet ==
    \/ Call("calculateSupernet", [cidrs |-> <<>>])
    \/ \E c \in PairCidrs : Call("calculateSupernet", [cidrs |-> <<c>>])
    \/ \E c1 \in PairCidrs, c2 \in PairCidrs : Call("calculateSupernet", [cidrs |-> <<c1, c2>>])
    \/ \E c1 \in TripleCidrs, c2 \in TripleCidrs, c3 \in TripleCidrs :
           Call("calculateSupernet", [cidrs |-> <<c1, c2, c3>>])

NextSupernet == CalculateSupernet

SpecSupernet == InitSupernet /\ [][NextSupernet]_vars

SplitCIDR ==
    /\ pc = "call"
    /\ fn = "splitCIDR"
    /\ ret' = splitCIDR(args.cidr, args.newPrefix)
    /\ pc' = "done"
    /\ UNCHANGED <<fn, args>>

InitSplit ==
    \E ip \in PairAddrs, p \in Prefixes, newPrefix \in Prefixes :
        /\ newPrefix - p <= MaxSplitBits
        /\ Call("splitCIDR", [cidr |-> Cidr(ip, p), newPrefix |-> Num(newPrefix)])

NextSplit == SplitCIDR

SpecSplit == InitSplit /\ [][NextSplit]_vars

FindNextAvailableBlock ==
    /\ pc = "call"
    /\ fn = "findNextAvailableBlock"
    /\ ret' = findNextAvailableBlock(args.afterNetwork, args.prefix, args.existingRanges)
    /\ pc' = "done"
    /\ UNCHANGED <<fn, args>>

ExistingRanges == {calculateCIDRRange(c, "cidr-1") : c \in ExistingCidrs}

RECURSIVE RangeLists(_)
RangeLists(n) ==
    IF n = 0 THEN {<<>>}
    ELSE RangeLists(n - 1)
             \cup {Append(l, r) : l \in {m \in RangeLists(n - 1) : Len(m) = n - 1},
                                  r \in ExistingRanges}

InitFindNext ==
    \E i \in 1..NumAfterAddrs, p \in FindNextPrefixes, l \in RangeLists(MaxRanges) :
        Call("findNextAvailableBlock",
             [afterNetwork |-> ipToInt(parseIP(AddrPool[i])),
              prefix |-> Num(p),
              existingRanges |-> l])

NextFindNext == FindNextAvailableBlock

SpecFindNext == InitFindNext /\ [][NextFindNext]_vars

\* The existing ranges suggestRanges is run against.
SuggestCidrs ==
    {Cidr(Addr(0, 0, 0, 0), 0), Cidr(Addr(0, 0, 0, 0), 1), Cidr(Addr(0, 0, 1, 0), 24),
     Cidr(Addr(10, 0, 0, 0), 8), Cidr(Addr(10, 0, 1, 0), 24), Cidr(Addr(10, 0, 1, 128), 25),
     Cidr(Addr(10, 0, 2, 0), 23), Cidr(Addr(172, 16, 0, 0), 12), Cidr(Addr(172, 16, 1, 0), 28),
     Cidr(Addr(192, 168, 0, 0), 16), Cidr(Addr(192, 168, 1, 0), 24),
     Cidr(Addr(128, 0, 0, 0), 1)}

SuggestExisting == {calculateCIDRRange(c, "cidr-1") : c \in SuggestCidrs}

\* The lists of up to n elements of a set.
RECURSIVE ListsOf(_, _)
ListsOf(set, n) ==
    IF n = 0 THEN {<<>>}
    ELSE LET Longer(shorter) ==
                 shorter \cup {Append(l, r) : l \in {m \in shorter : Len(m) = n - 1}, r \in set}
         IN  Longer(ListsOf(set, n - 1))

SuggestRanges ==
    /\ pc = "call"
    /\ fn = "suggestRanges"
    /\ ret' = suggestRanges(args.existingRanges, args.preferPrivate)
    /\ pc' = "done"
    /\ UNCHANGED <<fn, args>>

InitSuggest ==
    \E l \in ListsOf(SuggestExisting, MaxRanges), preferPrivate \in BOOLEAN :
        Call("suggestRanges", [existingRanges |-> l, preferPrivate |-> preferPrivate])

NextSuggest == SuggestRanges

SpecSuggest == InitSuggest /\ [][NextSuggest]_vars

\* The octet texts validateIPAddress is run on, the first NumOctetTexts of:
OctetTexts ==
    <<<<"0">>, <<"2", "5", "5">>, <<>>, <<"0", "1">>, <<"a">>, <<"2", "5", "6">>,
      <<"0", "a">>, <<"1", " ">>, <<"-", "1">>>>

NumOctetTexts == 7

\* Every text of four octet texts joined by ".".
FourOctetTexts ==
    {Join(<<OctetTexts[a], OctetTexts[b], OctetTexts[c], OctetTexts[d]>>, <<".">>) :
        a \in 1..NumOctetTexts, b \in 1..NumOctetTexts,
        c \in 1..NumOctetTexts, d \in 1..NumOctetTexts}

\* Texts with another number of octets, with white space, or empty.
OddAddrTexts ==
    {<<>>, <<" ">>, <<"1", ".", "2", ".", "3">>,
      <<"1", ".", "2", ".", "3", ".", "4", ".", "5">>,
      <<" ", "1", ".", "2", ".", "3", ".", "4", " ">>,
      <<"1", ".", "2", ".", "3", ".", "4", ".">>, <<".">>, <<".", ".", ".">>,
      <<"1", " ", ".", "2", ".", "3", ".", "4">>,
      <<"1", ".", "2", ".", "3", ".", "4", "/", "2", "4">>,
      <<"1", ",", "2", ",", "3", ",", "4">>}

\* The values that are no text: null, undefined and numbers (NaN, Infinity,
\* -1, and 0.5, 24.5 and 128.5 among them).
NonTexts ==
    {JSNull, JSUndefined, JSNumber(NaN, 0), JSNumber(Infinity, 0), JSNumber(Num(0 - 1), 0)}
        \cup {JSNumber(Num(n), 0) : n \in {0, 24, 32, 33, 128, 129}}
        \cup {JSNumber(Num(n), 5) : n \in {0, 24, 128}}

Texts(set) == {JSString(s) : s \in set}

IPAddressInputs == Texts(FourOctetTexts \cup OddAddrTexts) \cup NonTexts

\* The prefix texts: numerals in and out of range, and texts that start with
\* a numeral or hold none.
PrefixTexts ==
    {<<>>, <<"0">>, <<"2", "4">>, <<"3", "2">>, <<"3", "3">>, <<"-", "1">>,
      <<"2", "4", ".", "5">>, <<"2", "4", "a", "b", "c">>, <<"a", "b", "c">>,
      <<" ", "2", "4">>, <<"+", "8">>, <<"0", "3", "2">>, <<"6", "4">>, <<"1", "2", "8">>,
      <<"1", "2", "9">>, <<"1", "3", "0">>}

PrefixInputs == Texts(PrefixTexts) \cup NonTexts

\* Address texts validateIPAddress rejects or trims.
BadAddrTexts ==
    {<<"1", ".", "2", ".", "3">>, <<"2", "5", "6", ".", "1", ".", "1", ".", "1">>,
      <<"0", "1", ".", "2", ".", "3", ".", "4">>, <<>>, <<"a", ".", "b", ".", "c", ".", "d">>,
      <<" ", "1", "0", ".", "0", ".", "0", ".", "1">>,
      <<"1", "0", ".", "0", ".", "0", ".", "1", " ">>,
      <<"2", "0", "0", "1", ":", "d", "b", "8", ":", ":">>}

\* CIDR texts with no, two or misplaced "/", or with white space.
OddCidrTexts ==
    {<<>>, <<" ">>, <<"/">>, <<"/", "/">>, <<"/", "2", "4">>,
      <<"1", "0", ".", "0", ".", "0", ".", "0", "/", "2", "4", "/", "1">>,
      <<"1", "0", ".", "0", ".", "0", ".", "0", "/", "/", "2", "4">>,
      <<" ", "1", "0", ".", "0", ".", "0", ".", "1", "/", "2", "4", " ">>,
      <<" ", "1", "0", ".", "0", ".", "0", ".", "0", "/", "2", "4">>,
      <<" ", "1", "0", ".", "0", ".", "0", ".", "1">>,
      <<"1", "0", ".", "0", ".", "0", ".", "1", " ", "/", "8">>,
      <<"1", "0", ".", "0", ".", "0", ".", "0", "/", " ", "8">>}

\* Every address text alone and with "/" and a prefix text after it.
CidrTexts ==
    LET ips == Addrs \cup BadAddrTexts
    IN  ips \cup {ip \o <<"/">> \o p : ip \in ips,
                                      p \in PrefixTexts \cup {NatToDigits(n, 10) : n \in Prefixes}}
            \cup OddCidrTexts

CIDRInputs == Texts(CidrTexts) \cup NonTexts

\* IPv6 texts with stray colons, more than one "::", a wrong number of
\* groups, groups that are no hexadecimal numeral, or upper-case digits.
OddIPv6Texts ==
    {<<":", ":", ":">>,
      <<":", "1", ":", "2", ":", "3", ":", "4", ":", "5", ":", "6", ":", "7">>,
      <<"1", ":", "2", ":", "3", ":", "4", ":", "5", ":", "6", ":", "7", ":">>,
      <<"1", ":", ":", "2", ":", ":", "3">>,
      <<"1", ":", "2", ":", "3", ":", "4", ":", "5", ":", "6", ":", "7", ":", "8", ":", "9">>,
      <<"1", ":", "2", ":", "3", ":", "4", ":", "5", ":", "6", ":", "7">>,
      <<"1", "2", "3", "4", "5", ":", ":">>, <<"g", ":", ":">>,
      <<"2", "0", "0", "1", ":", "D", "B", "8", ":", ":", "1">>, <<" ", ":", ":", "1", " ">>,
      <<"1", ":", ":", "2", ":", "3", ":", "4", ":", "5", ":", "6", ":", "7", ":", "8">>,
      <<":", ":", "1", ":", "2", ":", "3", ":", "4", ":", "5", ":", "6", ":", "7", ":", "8">>,
      <<":">>, <<"1", ":", ":", ":", "2">>,
      <<":", ":", "f", "f", "f", "f", ":", "1", ".", "2", ".", "3", ".", "4">>,
      <<"1", ":", "2", ":", "3", ":", "4", ":", "5", ":", "6", ":", "7", ":", ":", ":">>,
      <<"0", "1", "2", "3", "4", ":", ":", "1">>, <<":", ":", "A", ":", "b">>,
      <<"1", ":", ":">>}

IPv6AddressTexts == IPv6Addrs \cup OddIPv6Texts

IPv6AddressInputs == Texts(IPv6AddressTexts \cup {<<>>, <<" ">>}) \cup NonTexts

IPv6Suffixes ==
    {<<>>, <<"/", "0">>, <<"/", "6", "4">>, <<"/", "1", "2", "8">>, <<"/", "1", "2", "9">>,
      <<"/">>, <<"/", "6", "4", ".", "5">>, <<"/", "a", "b", "c">>, <<"/", "-", "1">>,
      <<"/", "6", "4", "/", "1">>}

IPv6CidrTexts == {ip \o s : ip \in IPv6AddressTexts, s \in IPv6Suffixes}

IPv6CIDRInputs == Texts(IPv6CidrTexts \cup {<<>>, <<" ">>}) \cup NonTexts

OddUniversalTexts ==
    {<<>>, <<" ">>, <<"1", "0", ".", "0", ".", "0", ".", "0", "/", "2", "4">>,
      <<"1", "0", ".", "0", ".", "0", ".", "1">>,
      <<"1", "0", ".", "0", ".", "0", ".", "0", "/", "3", "3">>,
      <<"1", ".", "2", ".", "3", "/", "8">>, <<"/", "6", "4">>,
      <<"1", "0", ".", "0", ".", "0", ".", "0", "/", "2", "4", "/", ":", ":">>,
      <<":", ":", "/", "2", "4", "/", "1">>}

UniversalInputs ==
    Texts({ip \o s : ip \in IPv6Addrs, s \in IPv6Suffixes} \cup OddUniversalTexts) \cup NonTexts

ValidateIPAddress ==
    /\ pc = "call"
    /\ fn = "validateIPAddress"
    /\ ret' = validateIPAddress(args.ip)
    /\ pc' = "done"
    /\ UNCHANGED <<fn, args>>

ValidatePrefixLength ==
    /\ pc = "call"
    /\ fn = "validatePrefixLength"
    /\ ret' = validatePrefixLength(args.prefix)
    /\ pc' = "done"
    /\ UNCHANGED <<fn, args>>

ValidateCIDR ==
    /\ pc = "call"
    /\ fn = "validateCIDR"
    /\ ret' = validateCIDR(args.cidr)
    /\ pc' = "done"
    /\ UNCHANGED <<fn, args>>

ValidateCIDRAlignment ==
    /\ pc = "call"
    /\ fn = "validateCIDRAlignment"
    /\ ret' = validateCIDRAlignment(args.cidr)
    /\ pc' = "done"
    /\ UNCHANGED <<fn, args>>

ValidateIPv6Address ==
    /\ pc = "call"
    /\ fn = "validateIPv6Address"
    /\ ret' = validateIPv6Address(args.ip)
    /\ pc' = "done"
    /\ UNCHANGED <<fn, args>>

ValidateIPv6PrefixLength ==
    /\ pc = "call"
    /\ fn = "validateIPv6PrefixLength"
    /\ ret' = validateIPv6PrefixLength(args.prefix)
    /\ pc' = "done"
    /\ UNCHANGED <<fn, args>>

ValidateIPv6CIDR ==
    /\ pc = "call"
    /\ fn = "validateIPv6CIDR"
    /\ ret' = validateIPv6CIDR(args.cidr)
    /\ pc' = "done"
    /\ UNCHANGED <<fn, args>>

ValidateUniversalCIDR ==
    /\ pc = "call"
    /\ fn = "validateUniversalCIDR"
    /\ ret' = validateUniversalCIDR(args.cidr)
    /\ pc' = "done"
    /\ UNCHANGED <<fn, args>>

InitValidation ==
    \/ \E ip \in IPAddressInputs : Call("validateIPAddress", [ip |-> ip])
    \/ \E prefix \in PrefixInputs : Call("validatePrefixLength", [prefix |-> prefix])
    \/ \E cidr \in CIDRInputs : Call("validateCIDR", [cidr |-> cidr])
    \/ \E cidr \in CIDRInputs : Call("validateCIDRAlignment", [cidr |-> cidr])
    \/ \E ip \in IPv6AddressInputs : Call("validateIPv6Address", [ip |-> ip])
    \/ \E prefix \in PrefixInputs : Call("validateIPv6PrefixLength", [prefix |-> prefix])
    \/ \E cidr \in IPv6CIDRInputs : Call("validateIPv6CIDR", [cidr |-> cidr])
    \/ \E cidr \in UniversalInputs : Call("validateUniversalCIDR", [cidr |-> cidr])

NextValidation ==
    \/ ValidateIPAddress
    \/ ValidatePrefixLength
    \/ ValidateCIDR
    \/ ValidateCIDRAlignment
    \/ ValidateIPv6Address
    \/ ValidateIPv6PrefixLength
    \/ ValidateIPv6CIDR
    \/ ValidateUniversalCIDR

SpecValidation == InitValidation /\ [][NextValidation]_vars

\* The valid "address/prefix" texts normalizeCIDR is run on: every address
\* with every prefix length, some of them with white space around.
NormalizeInputs ==
    {Cidr(ip, p) : ip \in Addrs, p \in Prefixes}
        \cup {<<" ">> \o Cidr(ip, p) \o <<" ">> : ip \in PairAddrs, p \in PairPrefixes}

\* normalizeCIDR(x)
NormalizeCIDR ==
    /\ pc = "call"
    /\ fn = "normalizeCIDR"
    /\ ret' = normalizeCIDR(args.cidr)
    /\ pc' = "once"
    /\ UNCHANGED <<fn, args>>

\* normalizeCIDR(normalizeCIDR(x)): the result is normalized again.
NormalizeAgain ==
    /\ pc = "once"
    /\ fn = "normalizeCIDR"
    /\ ret' = [once |-> ret, twice |-> normalizeCIDR(ret)]
    /\ pc' = "done"
    /\ UNCHANGED <<fn, args>>

InitNormalize == \E cidr \in NormalizeInputs : Call("normalizeCIDR", [cidr |-> cidr])

NextNormalize == NormalizeCIDR \/ NormalizeAgain

SpecNormalize == InitNormalize /\ [][NextNormalize]_vars

\* The group texts the IPv6 round trip is run on, the first NumGroupTexts of:
GroupTexts == <<<<"0">>, <<"1">>, <<"0", "0", "a", "b">>, <<"F", "f", "f", "f">>, <<"0", "0", "0", "0">>>>

NumGroupTexts == 3

\* "2001:db8" followed by every choice of six group texts.
EightGroupTexts ==
    {Join(<<<<"2", "0", "0", "1">>, <<"d", "b", "8">>, GroupTexts[a], GroupTexts[b],
            GroupTexts[c], GroupTexts[d], GroupTexts[e], GroupTexts[f]>>, <<":">>) :
        a \in 1..NumGroupTexts, b \in 1..NumGroupTexts, c \in 1..NumGroupTexts,
        d \in 1..NumGroupTexts, e \in 1..NumGroupTexts, f \in 1..NumGroupTexts}

\* The valid IPv6 texts: the full texts, their compressed forms, and the
\* other texts that validateIPv6Address accepts.
RoundTripInputs ==
    {x \in EightGroupTexts \cup {compressIPv6(t) : t \in EightGroupTexts}
              \cup {IPv6Pool[i] : i \in 1..Len(IPv6Pool)} \cup OddIPv6Texts :
        validateIPv6Address(JSString(x)).valid}

\* expandIPv6(x)
ExpandIPv6 ==
    /\ pc = "call"
    /\ fn = "expandIPv6"
    /\ ret' = [expanded |-> expandIPv6(args.ip)]
    /\ pc' = "expanded"
    /\ UNCHANGED <<fn, args>>

\* compressIPv6(expandIPv6(x))
CompressIPv6 ==
    /\ pc = "expanded"
    /\ fn = "expandIPv6"
    /\ ret' = [expanded |-> ret.expanded, compressed |-> compressIPv6(ret.expanded)]
    /\ pc' = "compressed"
    /\ UNCHANGED <<fn, args>>

\* expandIPv6(compressIPv6(expandIPv6(x)))
ExpandAgain ==
    /\ pc = "compressed"
    /\ fn = "expandIPv6"
    /\ ret' = [expanded |-> ret.expanded, compressed |-> ret.compressed,
               reexpanded |-> expandIPv6(ret.compressed)]
    /\ pc' = "done"
    /\ UNCHANGED <<fn, args>>

InitRoundTrip == \E ip \in RoundTripInputs : Call("expandIPv6", [ip |-> ip])

NextRoundTrip == ExpandIPv6 \/ CompressIPv6 \/ ExpandAgain

SpecRoundTrip == InitRoundTrip /\ [][NextRoundTrip]_vars

\* The n single-address ranges 0.0.0.1/32, 0.0.0.2/32, ... in ascending order.
AdjacentRanges(n) ==
    [i \in 1..n |-> calculateCIDRRange(Cidr(Addr(0, 0, i \div 256, i % 256), 32), "cidr-1")]

\* How many passes before the iteration cap the long run is picked up at.
CapLead == 3

\* The step-by-step specification starts from the calls of InitFindNext, and
\* from the run of findNextAvailableBlock(0, 32, AdjacentRanges(maxIterations + 1))
\* picked up at its loop condition CapLead passes before the cap: each pass of
\* that run collides with the next range of the list and moves the candidate
\* one address up, so after k passes the locals are candidate = k + 1 and
\* iterations = k.
InitFindNextLoop ==
    \/ InitFindNext
    \/ /\ fn = "findNextAvailableBlock"
       /\ args = [afterNetwork |-> Num(0), prefix |-> Num(32),
                  existingRanges |-> AdjacentRanges(maxIterations + 1)]
       /\ ret = [candidate |-> Num(maxIterations - CapLead + 1),
                 iterations |-> maxIterations - CapLead]
       /\ pc = "test"

\* The while condition of findNextAvailableBlock on its locals.
FindNextGuard(st) ==
    st.iterations < maxIterations /\ NumLt(st.candidate, <<Limb - 1, Limb - 1>>)

\* findNextAvailableBlock step by step. The control point pc is "test" at the
\* while condition and "body" inside the loop; ret holds the locals candidate
\* and iterations while the function runs, and the returned value with them
\* once it has returned.
FindNextEnter ==
    /\ pc = "call"
    /\ fn = "findNextAvailableBlock"
    /\ ret' = [candidate |->
                   FloorToMultiple(NumAdd(args.afterNetwork,
                                          MathPow2(NumSub(Num(32), args.prefix))),
                                   MathPow2(NumSub(Num(32), args.prefix))),
               iterations |-> 0]
    /\ pc' = "test"
    /\ UNCHANGED <<fn, args>>

\* The loop condition holds: enter the body.
FindNextTest ==
    /\ pc = "test"
    /\ FindNextGuard(ret)
    /\ pc' = "body"
    /\ UNCHANGED <<fn, args, ret>>

\* The loop condition fails: return null.
FindNextExit ==
    /\ pc = "test"
    /\ ~FindNextGuard(ret)
    /\ ret' = [candidate |-> ret.candidate, iterations |-> ret.iterations, value |-> Null]
    /\ pc' = "done"
    /\ UNCHANGED <<fn, args>>

\* One pass of the loop body: return the candidate, or move it past the
\* overlapping range, count the iteration and go back to the condition.
FindNextIterate ==
    /\ pc = "body"
    /\ LET Step(next) ==
               IF next.returned
               THEN /\ ret' = [candidate |-> next.candidate,
                               iterations |-> next.iterations, value |-> next.value]
                    /\ pc' = "done"
               ELSE /\ ret' = [candidate |-> next.candidate, iterations |-> next.iterations]
                    /\ pc' = "test"
       IN  Step(FindNextBody(ret, MathPow2(NumSub(Num(32), args.prefix)), args.prefix,
                             args.existingRanges))
    /\ UNCHANGED <<fn, args>>

NextFindNextLoop == FindNextEnter \/ FindNextTest \/ FindNextExit \/ FindNextIterate

SpecFindNextLoop == InitFindNextLoop /\ [][NextFindNextLoop]_vars

\* The control points of the function.
FindNextPoints == {"call", "test", "body", "done"}

\* A call that has not returned keeps running: nothing else is scheduled, and
\* every step of the function moves its control point, so pc cannot stay put
\* for ever before "done". (Each of the four steps is enabled at its control
\* point whatever the locals are.)
FindNextProgress == pc # "done" /\ pc' \in FindNextPoints

FairSpecFindNextLoop == SpecFindNextLoop /\ WF_pc(FindNextProgress)

\* The range records whose cidr field is the text as written, host bits kept.
WrittenRanges(id) ==
    {[calculateUniversalCIDRRange(c, id) EXCEPT !.cidr = c] : c \in PairCidrs \cup IPv6PairCidrs}

InitOverlapWritten ==
    \E r1 \in WrittenRanges("cidr-1"), r2 \in WrittenRanges("cidr-2") :
        Call("checkOverlap", [range1 |-> r1, range2 |-> r2])

SpecOverlapWritten == InitOverlapWritten /\ [][NextOverlap]_vars

\* calculateCIDRRange and calculateIPv6CIDRRange on every address and prefix.
InitRanges ==
    \/ \E ip \in Addrs, p \in Prefixes : Call("calculateCIDRRange", [cidr |-> Cidr(ip, p)])
    \/ \E ip \in IPv6Addrs, p \in IPv6Prefixes :
           Call("calculateIPv6CIDRRange", [cidr |-> Cidr(ip, p)])

NextRanges == CalculateCIDRRange \/ CalculateIPv6CIDRRange

SpecRanges == InitRanges /\ [][NextRanges]_vars

\* calculateCIDRRange(x), kept for the comparison with the range of the
\* normalized text.
RangeOfWritten ==
    /\ pc = "call"
    /\ fn = "calculateCIDRRange"
    /\ \E id \in RangeIds : ret' = [written |-> calculateCIDRRange(args.cidr, id)]
    /\ pc' = "written"
    /\ UNCHANGED <<fn, args>>

\* normalizeCIDR(x)
NormalizeWritten ==
    /\ pc = "written"
    /\ fn = "calculateCIDRRange"
    /\ ret' = [written |-> ret.written, normalized |-> normalizeCIDR(args.cidr)]
    /\ pc' = "normalized"
    /\ UNCHANGED <<fn, args>>

\* calculateCIDRRange(normalizeCIDR(x))
RangeOfNormalized ==
    /\ pc = "normalized"
    /\ fn = "calculateCIDRRange"
    /\ \E id \in RangeIds :
           ret' = [written |-> ret.written, normalized |-> ret.normalized,
                   ofNormalized |-> calculateCIDRRange(ret.normalized, id)]
    /\ pc' = "done"
    /\ UNCHANGED <<fn, args>>

InitSameBlock ==
    \E ip \in Addrs, p \in Prefixes : Call("calculateCIDRRange", [cidr |-> Cidr(ip, p)])

NextSameBlock == RangeOfWritten \/ NormalizeWritten \/ RangeOfNormalized

SpecSameBlock == InitSameBlock /\ [][NextSameBlock]_vars

\* validateCIDR(text), kept for the step that uses an accepted text.
ValidateGiven ==
    /\ pc = "call"
    /\ fn = "validateCIDR"
    /\ ret' = [validation |-> validateCIDR(args.cidr)]
    /\ pc' = "validated"
    /\ UNCHANGED <<fn, args>>

\* calculateCIDRRange(text) of a text that validateCIDR accepted, the text
\* passed as it is.
RangeOfAccepted ==
    /\ pc = "validated"
    /\ fn = "validateCIDR"
    /\ ret.validation.valid
    /\ \E id \in RangeIds :
           ret' = [validation |-> ret.validation,
                   range |-> calculateCIDRRange(args.cidr.value, id)]
    /\ pc' = "done"
    /\ UNCHANGED <<fn, args>>

InitAccepted ==
    \E t \in CidrTexts : Call("validateCIDR", [cidr |-> JSString(t)])

NextAccepted == ValidateGiven \/ RangeOfAccepted

SpecAccepted == InitAccepted /\ [][NextAccepted]_vars

\* The addresses findNextAvailableBlock starts after in the search for the
\* lowest free block: aligned and unaligned ones, and the last addresses of
\* the address space.
LowestAfterAddrs ==
    {Addr(0, 0, 0, 0), Addr(127, 255, 255, 255), Addr(192, 168, 0, 0), Addr(192, 168, 2, 77),
     Addr(255, 255, 255, 0), Addr(255, 255, 255, 251), Addr(255, 255, 255, 253),
     Addr(255, 255, 255, 254)}

\* The existing ranges of that search: those of ExistingCidrs and blocks at
\* the top of the address space.
LowestRanges ==
    ExistingRanges
        \cup {calculateCIDRRange(c, "cidr-1") :
                 c \in {Cidr(Addr(255, 255, 255, 252), 31), Cidr(Addr(255, 255, 255, 254), 32),
                        Cidr(Addr(255, 255, 255, 0), 25), Cidr(Addr(192, 0, 0, 0), 2)}}

InitFindLowest ==
    \E ip \in LowestAfterAddrs, p \in FindNextPrefixes, l \in ListsOf(LowestRanges, MaxRanges) :
        Call("findNextAvailableBlock",
             [afterNetwork |-> ipToInt(parseIP(ip)),
              prefix |-> Num(p),
              existingRanges |-> l])

SpecFindLowest == InitFindLowest /\ [][NextFindNext]_vars

\* The aligned blocks "network/p" of the addresses of Addrs, p in 0 .. 31.
AlignedCidrs == {normalizeCIDR(Cidr(ip, p)) : ip \in Addrs, p \in 0..31}

\* splitCIDR(c, p + 1)
SplitInHalves ==
    /\ pc = "call"
    /\ fn = "splitCIDR"
    /\ ret' = [halves |-> splitCIDR(args.cidr, args.newPrefix)]
    /\ pc' = "split"
    /\ UNCHANGED <<fn, args>>

\* canMergeCIDRs(x, y) of the two halves [x, y]
MergeHalves ==
    /\ pc = "split"
    /\ fn = "splitCIDR"
    /\ Len(ret.halves) = 2
    /\ ret' = [halves |-> ret.halves, merged |-> canMergeCIDRs(ret.halves[1], ret.halves[2])]
    /\ pc' = "merged"
    /\ UNCHANGED <<fn, args>>

\* canMergeCIDRs(y, x)
MergeHalvesSwapped ==
    /\ pc = "merged"
    /\ fn = "splitCIDR"
    /\ ret' = [halves |-> ret.halves, merged |-> ret.merged,
               swapped |-> canMergeCIDRs(ret.halves[2], ret.halves[1])]
    /\ pc' = "done"
    /\ UNCHANGED <<fn, args>>

InitSplitMerge ==
    \E c \in AlignedCidrs :
        Call("splitCIDR", [cidr |-> c, newPrefix |-> NumAdd(parseCIDR(c).prefixLength, Num(1))])

NextSplitMerge == SplitInHalves \/ MergeHalves \/ MergeHalvesSwapped

SpecSplitMerge == InitSplitMerge /\ [][NextSplitMerge]_vars

\* splitCIDR(c, q)
SplitGiven ==
    /\ pc = "call"
    /\ fn = "splitCIDR"
    /\ ret' = [pieces |-> splitCIDR(args.cidr, args.newPrefix)]
    /\ pc' = "split"
    /\ UNCHANGED <<fn, args>>

\* calculateSupernet(splitCIDR(c, q))
SummarizePieces ==
    /\ pc = "split"
    /\ fn = "splitCIDR"
    /\ ret' = [pieces |-> ret.pieces, supernet |-> calculateSupernet(ret.pieces)]
    /\ pc' = "summarized"
    /\ UNCHANGED <<fn, args>>

\* normalizeCIDR(c)
NormalizeGiven ==
    /\ pc = "summarized"
    /\ fn = "splitCIDR"
    /\ ret' = [pieces |-> ret.pieces, supernet |-> ret.supernet,
               normalized |-> normalizeCIDR(args.cidr)]
    /\ pc' = "done"
    /\ UNCHANGED <<fn, args>>

\* Every block, aligned or not, with every longer prefix up to MaxSplitBits
\* bits longer.
InitSplitSummary ==
    \E ip \in PairAddrs, p \in Prefixes, newPrefix \in Prefixes :
        /\ p < newPrefix
        /\ newPrefix - p <= MaxSplitBits
        /\ Call("splitCIDR", [cidr |-> Cidr(ip, p), newPrefix |-> Num(newPrefix)])

NextSplitSummary == SplitGiven \/ SummarizePieces \/ NormalizeGiven

SpecSplitSummary == InitSplitSummary /\ [][NextSplitSummary]_vars

-----------------------------------------------------------------------------
(* Claims                                                                  *)

\* 2^k as a number (k in 0 .. 32)
TwoTo(k) == IF k < 16 THEN <<0, 2^k>> ELSE <<2^(k - 16), 0>>

\* The number that the dotted text of four decimal octets denotes.
AddrValue(ip) ==
    LET o == Split(ip, <<".">>)
    IN  <<DigitsValue(o[1], 10) * 256 + DigitsValue(o[2], 10),
          DigitsValue(o[3], 10) * 256 + DigitsValue(o[4], 10)>>

\* The number that a text of decimal digits denotes.
RECURSIVE DecimalValue(_)
DecimalValue(s) ==
    IF s = <<>> THEN Num(0)
    ELSE NumAdd(MulSmall(10, DecimalValue(SubSeq(s, 1, Len(s) - 1))),
                Num(DigitValue(s[Len(s)])))

\* s is the canonical decimal text of a natural: digits only, no leading zero.
IsDecimalText(s) ==
    /\ s # <<>>
    /\ \A i \in 1..Len(s) : IsDecDigit(s[i])
    /\ (Len(s) > 1 => s[1] # "0")

IsUint32(x) == x[1] \in 0..(Limb - 1) /\ x[2] \in 0..(Limb - 1)

\* The prefix length written in the text "ip/p".
InputPrefix(cidr) == DigitsValue(Split(cidr, <<"/">>)[2], 10)

\* C1: for every address n and prefix p in [0,32], getNetworkAddress(n,p) is a
\* non-negative 32-bit value with its low 32-p bits zero (network & ~mask = 0)
\* and its high p bits those of n; getBroadcastAddress(n,p) is that network
\* with the low 32-p bits set; prefix 0 gives mask 0, network 0.0.0.0 and
\* broadcast 255.255.255.255.
C1_NetworkAndBroadcast ==
    Returned("getNetworkAddress") =>
        LET n == args.ipInt
            p == ToNat(args.prefix)
            size == TwoTo(32 - p)
        IN  /\ IsUint32(ret.network)
            /\ IsUint32(ret.broadcast)
            /\ ModPow2(ret.network, size) = Num(0)
            /\ BitAnd(ret.network, BitNot(ret.mask)) = Num(0)
            /\ ret.network = NumSub(n, ModPow2(n, size))
            /\ ret.broadcast = NumSub(NumAdd(ret.network, size), Num(1))
            /\ (p = 0 => /\ ret.mask = Num(0)
                         /\ intToIP(ret.network) = Addr(0, 0, 0, 0)
                         /\ intToIP(ret.broadcast) = Addr(255, 255, 255, 255))

C1_Witness ==
    /\ Returned("getNetworkAddress")
    /\ args.prefix = Num(0)
    /\ args.ipInt = <<Limb - 1, Limb - 1>>
    /\ ret.network = Num(0)

\* C2: calculateCIDRRange gives firstUsable = networkAddress and lastUsable =
\* broadcastAddress for prefix 31 and 32, and firstUsable = networkAddress + 1,
\* lastUsable = broadcastAddress - 1 for every prefix in [0,30].
C2_UsableAddresses ==
    Returned("calculateCIDRRange") =>
        IF InputPrefix(args.cidr) >= 31
        THEN /\ ret.firstUsable = ret.networkAddress
             /\ ret.lastUsable = ret.broadcastAddress
        ELSE /\ AddrValue(ret.firstUsable) = NumAdd(AddrValue(ret.networkAddress), Num(1))
             /\ AddrValue(ret.lastUsable) = NumSub(AddrValue(ret.broadcastAddress), Num(1))

C2_Witness ==
    /\ Returned("calculateCIDRRange")
    /\ InputPrefix(args.cidr) = 31
    /\ ret.firstUsable = ret.networkAddress
    /\ ret.lastUsable = ret.broadcastAddress
    /\ ret.firstUsable # ret.lastUsable

\* C3: calculateIPv6CIDRRange gives firstUsable = networkAddress and
\* lastUsable = broadcastAddress for every prefix in [0,128].
C3_IPv6AllUsable ==
    Returned("calculateIPv6CIDRRange") =>
        /\ ret.firstUsable = ret.networkAddress
        /\ ret.lastUsable = ret.broadcastAddress

\* C4: calculateTotalHosts(p) is the exact decimal text of 2^(32-p), and
\* calculateUsableHosts(p) the decimal text of that minus 2 for p < 31 and
\* minus 0 for p = 31, 32.
C4_HostCounts ==
    Returned("calculateTotalHosts") =>
        LET p == ToNat(args.prefix)
        IN  /\ IsDecimalText(ret.totalHosts)
            /\ DecimalValue(ret.totalHosts) = TwoTo(32 - p)
            /\ IsDecimalText(ret.usableHosts)
            /\ DecimalValue(ret.usableHosts)
                   = NumSub(TwoTo(32 - p), IF p < 31 THEN Num(2) ELSE Num(0))

C4_Witness ==
    /\ Returned("calculateTotalHosts")
    /\ args.prefix = Num(0)
    /\ ret.totalHosts = <<"4", "2", "9", "4", "9", "6", "7", "2", "9", "6">>
    /\ ret.usableHosts = <<"4", "2", "9", "4", "9", "6", "7", "2", "9", "4">>

\* The dotted text of the address a number denotes.
AddrOf(x) == Addr(x[1] \div 256, x[1] % 256, x[2] \div 256, x[2] % 256)

\* The address written in the text "ip/p".
CidrAddr(cidr) == AddrValue(Split(cidr, <<"/">>)[1])

\* First and last address of the aligned block of prefix length p that holds n.
BlockStart(n, p) == NumSub(n, ModPow2(n, TwoTo(32 - p)))

BlockEnd(n, p) == NumSub(NumAdd(BlockStart(n, p), TwoTo(32 - p)), Num(1))

CidrStart(cidr) == BlockStart(CidrAddr(cidr), InputPrefix(cidr))

CidrEnd(cidr) == BlockEnd(CidrAddr(cidr), InputPrefix(cidr))

\* The address a range field denotes, as a sequence of integers compared
\* lexicographically: two 16-bit halves for IPv4, eight groups for IPv6.
FieldValue(range, text) ==
    IF range.ipVersion = 4 THEN AddrValue(text)
    ELSE [i \in 1..IPV6_GROUPS |-> DigitsValue(Split(expandIPv6(text), <<":">>)[i], 16)]

RECURSIVE LexLe(_, _)
LexLe(a, b) ==
    IF a = <<>> THEN TRUE
    ELSE IF a[1] # b[1] THEN a[1] < b[1]
    ELSE LexLe(Tail(a), Tail(b))

RangeStart(range) == FieldValue(range, range.networkAddress)

RangeEnd(range) == FieldValue(range, range.broadcastAddress)

\* The classification of two ranges by their network..broadcast intervals.
Classify(a, b) ==
    IF a.ipVersion # b.ipVersion THEN "null"
    ELSE IF LexLe(RangeStart(a), RangeStart(b)) /\ LexLe(RangeEnd(b), RangeEnd(a))
    THEN "contains"
    ELSE IF LexLe(RangeStart(b), RangeStart(a)) /\ LexLe(RangeEnd(a), RangeEnd(b))
    THEN "contained"
    ELSE IF LexLe(RangeStart(a), RangeEnd(b)) /\ LexLe(RangeStart(b), RangeEnd(a))
    THEN "partial"
    ELSE "null"

SameBlock(a, b) ==
    /\ a.ipVersion = b.ipVersion
    /\ a.networkAddress = b.networkAddress
    /\ a.broadcastAddress = b.broadcastAddress

\* C5: checkOverlap(a,b) is null for different ipVersion; otherwise, by the
\* network..broadcast intervals, "contains" if a's interval holds b's, else
\* "contained" if b's holds a's, else "partial" if they intersect, else null;
\* equal ranges are "contains"; the same for IPv4 and IPv6.
C5_OverlapClassification ==
    Returned("checkOverlap") =>
        /\ ret.overlapType = Classify(args.range1, args.range2)
        /\ (SameBlock(args.range1, args.range2) => ret.overlapType = "contains")
        /\ (ret.overlapType # "null" =>
                ret = Overlap(args.range1, args.range2, ret.overlapType))

C5_Witness ==
    /\ Returned("checkOverlap")
    /\ args.range1.ipVersion = 6
    /\ args.range2.ipVersion = 6
    /\ ~SameBlock(args.range1, args.range2)
    /\ ret.overlapType = "contained"

\* C6 as stated: checkOverlap(a,b) and checkOverlap(b,a) report swapped
\* contains/contained (one is "contains" exactly when the other is
\* "contained"), "partial" identically, and null in one order exactly when
\* null in the other.
C6_Symmetry ==
    Returned("checkOverlap") =>
        LET back == checkOverlap(args.range2, args.range1).overlapType
        IN  /\ (ret.overlapType = "contains") = (back = "contained")
            /\ (ret.overlapType = "contained") = (back = "contains")
            /\ (ret.overlapType = "partial") = (back = "partial")
            /\ (ret.overlapType = "null") = (back = "null")

\* C6 amended: for two ranges with different blocks the two orders report
\* swapped contains/contained, "partial" identically and null together; two
\* ranges with the same block are "contains" in both orders.
C6_SymmetryDistinct ==
    Returned("checkOverlap") =>
        LET back == checkOverlap(args.range2, args.range1).overlapType
        IN  IF SameBlock(args.range1, args.range2)
            THEN ret.overlapType = "contains" /\ back = "contains"
            ELSE /\ (ret.overlapType = "contains") = (back = "contained")
                 /\ (ret.overlapType = "contained") = (back = "contains")
                 /\ (ret.overlapType = "partial") = (back = "partial")
                 /\ (ret.overlapType = "null") = (back = "null")

C6_Witness ==
    /\ Returned("checkOverlap")
    /\ args.range1.ipVersion = 6
    /\ ~SameBlock(args.range1, args.range2)
    /\ ret.overlapType = "contains"
    /\ checkOverlap(args.range2, args.range1).overlapType = "contained"

\* C7: canMergeCIDRs(a,b) is non-null exactly when a and b have the same
\* prefix p >= 1 and their blocks are the two halves of one aligned /(p-1)
\* block; the result is then that block as "network/(p-1)".
C7_MergeBuddies ==
    Returned("canMergeCIDRs") =>
        LET p1 == InputPrefix(args.cidr1)
            p2 == InputPrefix(args.cidr2)
            n1 == CidrStart(args.cidr1)
            n2 == CidrStart(args.cidr2)
        IN  IF /\ p1 = p2
               /\ p1 >= 1
               /\ n1 # n2
               /\ BlockStart(n1, p1 - 1) = BlockStart(n2, p1 - 1)
            THEN ret = Cidr(AddrOf(BlockStart(n1, p1 - 1)), p1 - 1)
            ELSE ret = Null

C7_Witness ==
    /\ Returned("canMergeCIDRs")
    /\ args.cidr1 = Cidr(Addr(192, 168, 1, 0), 24)
    /\ args.cidr2 = Cidr(Addr(192, 168, 0, 0), 24)
    /\ ret = Cidr(Addr(192, 168, 0, 0), 23)

\* Every interval [starts[i], ends[i]] lies in the aligned block of prefix
\* length q that holds n.
Covers(n, q, starts, ends) ==
    \A i \in 1..Len(starts) :
        NumLe(BlockStart(n, q), starts[i]) /\ NumLe(ends[i], BlockEnd(n, q))

\* C8: for a list of two or more CIDRs calculateSupernet returns the minimal
\* enclosing aligned block: an aligned "network/prefix" that contains every
\* input's interval, no aligned block of a longer prefix containing them all.
C8_SupernetMinimal ==
    Returned("calculateSupernet") /\ Len(args.cidrs) >= 2 =>
        LET p == InputPrefix(ret.value)
            n == CidrAddr(ret.value)
            starts == [i \in 1..Len(args.cidrs) |-> CidrStart(args.cidrs[i])]
            ends == [i \in 1..Len(args.cidrs) |-> CidrEnd(args.cidrs[i])]
        IN  /\ p \in 0..32
            /\ ret.value = Cidr(AddrOf(n), p)
            /\ BlockStart(n, p) = n
            /\ Covers(n, p, starts, ends)
            /\ \A q \in (p + 1)..32 : ~Covers(starts[1], q, starts, ends)

C8_Witness ==
    /\ Returned("calculateSupernet")
    /\ args.cidrs = <<Cidr(Addr(127, 255, 255, 255), 32), Cidr(Addr(128, 0, 0, 0), 32)>>
    /\ ret.value = Cidr(Addr(0, 0, 0, 0), 0)

\* C9: splitCIDR(cidr,newPrefix) returns [cidr] unchanged when newPrefix <=
\* prefix; otherwise exactly 2^(newPrefix-prefix) entries, the i-th (from 0)
\* being "address/newPrefix" with address = network + i * 2^(32-newPrefix),
\* ascending, so the sub-blocks are disjoint and cover exactly the block.
C9_SplitBlocks ==
    Returned("splitCIDR") =>
        LET p == InputPrefix(args.cidr)
            newPrefix == ToNat(args.newPrefix)
            size == TwoTo(32 - newPrefix)
        IN  IF newPrefix <= p THEN ret = <<args.cidr>>
            ELSE /\ Len(ret) = 2^(newPrefix - p)
                 /\ \A i \in 1..Len(ret) :
                        ret[i] = Cidr(AddrOf(NumAdd(CidrStart(args.cidr), MulSmall(i - 1, size))),
                                      newPrefix)
                 /\ \A i \in 1..(Len(ret) - 1) :
                        NumAdd(CidrEnd(ret[i]), Num(1)) = CidrStart(ret[i + 1])
                 /\ CidrStart(ret[1]) = CidrStart(args.cidr)
                 /\ CidrEnd(ret[Len(ret)]) = CidrEnd(args.cidr)

C9_Witness ==
    /\ Returned("splitCIDR")
    /\ args.cidr = Cidr(Addr(192, 168, 2, 77), 24)
    /\ args.newPrefix = Num(26)
    /\ Len(ret) = 4
    /\ ret[4] = Cidr(Addr(192, 168, 2, 192), 26)

\* C10: a non-null result "address/prefix" of findNextAvailableBlock has its
\* address a multiple of 2^(32-prefix) and above afterNetwork, its block
\* inside the 32-bit address space, and its block's interval intersecting the
\* network..broadcast interval of no range in existingRanges.
C10_NextBlockFree ==
    Returned("findNextAvailableBlock") /\ ret # Null =>
        LET p == ToNat(args.prefix)
            a == CidrAddr(ret)
            size == TwoTo(32 - p)
            last == NumSub(NumAdd(a, size), Num(1))
        IN  /\ ret = Cidr(AddrOf(a), p)
            /\ ModPow2(a, size) = Num(0)
            /\ NumLt(args.afterNetwork, a)
            /\ IsUint32(a)
            /\ IsUint32(last)
            /\ \A k \in 1..Len(args.existingRanges) :
                   LET r == args.existingRanges[k]
                   IN  ~(/\ NumLe(a, AddrValue(r.broadcastAddress))
                         /\ NumLe(AddrValue(r.networkAddress), last))

C10_Witness ==
    /\ Returned("findNextAvailableBlock")
    /\ ret # Null
    /\ Len(args.existingRanges) = 2
    /\ NumLt(NumAdd(args.afterNetwork, TwoTo(32 - ToNat(args.prefix))), CidrAddr(ret))

\* C11: suggestRanges returns at most 5 suggestions, each with a prefix length
\* in 24..28 and the host counts calculateTotalHosts/calculateUsableHosts give
\* for that prefix, and no suggested block overlaps an existing range.
C11_SuggestionsFree ==
    Returned("suggestRanges") =>
        /\ Len(ret) <= 5
        /\ \A i \in 1..Len(ret) :
               LET p == InputPrefix(ret[i].cidr)
               IN  /\ p \in 24..28
                   /\ ret[i].cidr = Cidr(AddrOf(CidrStart(ret[i].cidr)), p)
                   /\ ret[i].totalHosts = calculateTotalHosts(Num(p))
                   /\ ret[i].usableHosts = calculateUsableHosts(Num(p))
                   /\ DecimalValue(ret[i].totalHosts) = TwoTo(32 - p)
                   /\ \A k \in 1..Len(args.existingRanges) :
                          LET r == args.existingRanges[k]
                          IN  ~(/\ NumLe(CidrStart(ret[i].cidr), AddrValue(r.broadcastAddress))
                                /\ NumLe(AddrValue(r.networkAddress), CidrEnd(ret[i].cidr)))

C11_Witness ==
    /\ Returned("suggestRanges")
    /\ args.preferPrivate
    /\ Len(args.existingRanges) = 2
    /\ Len(ret) = 3
    /\ ret[1].cidr = Cidr(Addr(10, 0, 4, 0), 24)

\* An octet text as the address syntax wants it: decimal digits, no leading
\* zero unless it is "0", value at most 255.
WellFormedOctet(o) ==
    /\ o # <<>>
    /\ \A i \in 1..Len(o) : IsDecDigit(o[i])
    /\ Len(o) = 1 \/ o[1] # "0"
    /\ DigitsValue(o, 10) <= 255

\* The error messages that name a fault the octet text o has.
OctetFaults(o) ==
    {m \in {"Octet {} is empty", "Octet {} has leading zeros",
            "Octet {} is not a valid number", "Octet {} must be between 0 and 255"} :
        \/ m = "Octet {} is empty" /\ o = <<>>
        \/ m = "Octet {} has leading zeros" /\ Len(o) > 1 /\ o[1] = "0"
        \/ m = "Octet {} is not a valid number" /\ \E i \in 1..Len(o) : ~IsDecDigit(o[i])
        \/ /\ m = "Octet {} must be between 0 and 255"
           /\ o # <<>>
           /\ \A i \in 1..Len(o) : IsDecDigit(o[i])
           /\ DigitsValue(o, 10) > 255}

\* The text is an IPv4 address: four well-formed octets between dots, with
\* white space allowed around the whole.
IsAddressText(s) ==
    LET o == Split(Trim(s), <<".">>)
    IN  Len(o) = 4 /\ \A i \in 1..4 : WellFormedOctet(o[i])

\* C13: validateIPAddress returns valid exactly for the texts that, trimmed,
\* are four dot-separated octets, each a non-empty run of decimal digits with
\* no leading zero unless it is "0" and with value at most 255; any other
\* input is rejected with an error that tells apart missing or empty input,
\* a wrong octet count, and, for the first octet at fault and with its
\* position, an empty octet, a leading zero, a non-numeric octet and an
\* out-of-range octet.
C13_AddressSyntax ==
    Returned("validateIPAddress") =>
        IF args.ip.type # "string"
        THEN ret = Invalid("IP address is required", <<>>)
        ELSE LET o == Split(Trim(args.ip.value), <<".">>)
                 bad == {i \in 1..Len(o) : ~WellFormedOctet(o[i])}
             IN  /\ ret.valid <=> IsAddressText(args.ip.value)
                 /\ Trim(args.ip.value) = <<>> =>
                        /\ ~ret.valid
                        /\ ret.error.msg \in {"IP address is required",
                                              "IP address cannot be empty"}
                 /\ Trim(args.ip.value) # <<>> /\ Len(o) # 4 =>
                        ret = Invalid("IP address must have exactly 4 octets", <<>>)
                 /\ Len(o) = 4 /\ bad # {} =>
                        LET k == CHOOSE i \in bad : \A j \in bad : i <= j
                        IN  /\ ~ret.valid
                            /\ ret.error.msg \in OctetFaults(o[k])
                            /\ ret.error.arg = NatToDigits(k, 10)

C13_Witness ==
    /\ Returned("validateIPAddress")
    /\ args.ip = JSString(<<"0", ".", "0", "1", ".", "a", ".", "2", "5", "6">>)
    /\ ret = Invalid("Octet {} has leading zeros", <<"2">>)

\* The text is an integer numeral: an optional sign and decimal digits, with
\* white space allowed around the whole.
IsIntegerText(s) ==
    LET t == Trim(s)
        u == IF t # <<>> /\ (t[1] = "-" \/ t[1] = "+") THEN Tail(t) ELSE t
    IN  u # <<>> /\ \A i \in 1..Len(u) : IsDecDigit(u[i])

\* The JS value denotes an integer within [0, max].
DenotesIntegerUpTo(v, max) ==
    CASE v.type = "string" ->
             /\ IsIntegerText(v.value)
             /\ NumLe(Num(0), ParseInt(v.value, 10))
             /\ NumLe(ParseInt(v.value, 10), Num(max))
      [] v.type = "number" ->
             /\ v.tenths = 0
             /\ NumLe(Num(0), v.value)
             /\ NumLe(v.value, Num(max))
      [] OTHER -> FALSE

\* C14: validatePrefixLength returns valid only when its input, a number or a
\* text, denotes an integer within [0,32]; a non-integer (the number 24.5 or
\* the text "24.5"), a non-numeric text and NaN are rejected with an error.
C14_IntegerPrefixOnly ==
    Returned("validatePrefixLength") =>
        /\ ret.valid => DenotesIntegerUpTo(args.prefix, 32)
        /\ ~DenotesIntegerUpTo(args.prefix, 32) => ~ret.valid /\ ret.error.msg # ""

\* The text is an IPv4 CIDR: an address text alone, or an address text, one
\* "/" and an integer numeral within [0,32].
IsCidrText(s) ==
    LET parts == Split(Trim(s), <<"/">>)
    IN  \/ Len(parts) = 1 /\ IsAddressText(parts[1])
        \/ /\ Len(parts) = 2
           /\ IsAddressText(parts[1])
           /\ DenotesIntegerUpTo(JSString(parts[2]), 32)

\* C12: validateCIDR accepts a text exactly when it is a valid IPv4 address
\* with no "/", or one "/" between a valid IPv4 address and a valid prefix
\* length; more than one "/", an empty prefix, an invalid address or an
\* invalid prefix give {valid:false,error}; the address need not be aligned
\* to the prefix.
C12_CidrSyntax ==
    Returned("validateCIDR") /\ args.cidr.type = "string" =>
        /\ ret.valid <=> IsCidrText(args.cidr.value)
        /\ ~ret.valid => ret.error.msg # ""

\* The groups written in a part of an IPv6 text (none in the empty part).
WrittenGroups(part) == IF part = <<>> THEN <<>> ELSE Split(part, <<":">>)

\* Every group written in the part has 1 to 4 hexadecimal digits.
GroupsWellFormed(part) ==
    \A k \in 1..Len(WrittenGroups(part)) :
        LET g == ToLowerCase(WrittenGroups(part)[k])
        IN  Len(g) \in 1..4 /\ \A i \in 1..Len(g) : IsHexDigit(g[i])

\* The text is an IPv6 address: eight well-formed groups, or at most eight
\* around one "::", with no other empty group.
IsIPv6Text(s) ==
    LET t == Trim(s)
        i == IndexOfFrom(t, <<":", ":">>, 1)
    IN  IF i = 0
        THEN Len(WrittenGroups(t)) = IPV6_GROUPS /\ GroupsWellFormed(t)
        ELSE LET left == SubSeq(t, 1, i - 1)
                 right == SubSeq(t, i + 2, Len(t))
             IN  /\ ~Includes(right, <<":", ":">>)
                 /\ GroupsWellFormed(left)
                 /\ GroupsWellFormed(right)
                 /\ Len(WrittenGroups(left)) + Len(WrittenGroups(right)) <= IPV6_GROUPS

\* C15: validateIPv6Address accepts a text only if it holds at most one "::",
\* every group written in it has 1 to 4 hexadecimal digits and it expands to
\* eight groups; a text with an empty group outside the one "::" (a stray
\* leading or trailing ":", or ":::"), with more than one "::" or with too
\* many or too few groups is rejected.
C15_IPv6Syntax ==
    Returned("validateIPv6Address") /\ args.ip.type = "string" =>
        /\ ret.valid => IsIPv6Text(args.ip.value)
        /\ ~IsIPv6Text(args.ip.value) => ~ret.valid /\ ret.error.msg # ""

\* The address and the prefix length a CIDR text that validateCIDR accepts
\* stands for: the prefix is 32 when the text has no "/".
TextAddr(s) == AddrValue(Trim(Split(Trim(s), <<"/">>)[1]))

TextPrefix(s) ==
    IF Includes(s, <<"/">>) THEN ToNat(ParseInt(Split(Trim(s), <<"/">>)[2], 10)) ELSE 32

\* C16: validateCIDRAlignment(text) is valid exactly when validateCIDR(text)
\* is valid and the address has no host bit set for the prefix; when
\* validateCIDR passes and a host bit is set, the error holds the corrected
\* "network/prefix", which equals normalizeCIDR(text) and passes
\* validateCIDRAlignment.
C16_Alignment ==
    Returned("validateCIDRAlignment") /\ args.cidr.type = "string" =>
        IF ~validateCIDR(args.cidr).valid THEN ~ret.valid
        ELSE LET aligned == ModPow2(TextAddr(args.cidr.value),
                                    TwoTo(32 - TextPrefix(args.cidr.value))) = Num(0)
             IN  /\ ret.valid <=> aligned
                 /\ ~aligned =>
                        /\ ret.error.msg
                               = "IP address is not aligned with the prefix. Did you mean {}?"
                        /\ ret.error.arg
                               = Cidr(AddrOf(BlockStart(TextAddr(args.cidr.value),
                                                        TextPrefix(args.cidr.value))),
                                      TextPrefix(args.cidr.value))
                        /\ ret.error.arg = normalizeCIDR(args.cidr.value)
                        /\ validateCIDRAlignment(JSString(ret.error.arg)) = Valid

C16_Witness ==
    /\ Returned("validateCIDRAlignment")
    /\ args.cidr = JSString(<<"1", "9", "2", ".", "1", "6", "8", ".", "2", ".", "7", "7", "/", "2", "3">>)
    /\ ~ret.valid
    /\ ret.error.arg = <<"1", "9", "2", ".", "1", "6", "8", ".", "2", ".", "0", "/", "2", "3">>

\* C17: every validator returns a result for every input, the empty and blank
\* text, null and undefined among them, and never throws: a failure is
\* {valid:false} with a non-empty error message, a success {valid:true} with
\* no error field.
C17_AlwaysAResult ==
    pc = "done" /\ fn \in {"validateIPAddress", "validatePrefixLength", "validateCIDR",
                           "validateCIDRAlignment", "validateIPv6Address",
                           "validateIPv6PrefixLength", "validateIPv6CIDR",
                           "validateUniversalCIDR"} =>
        /\ ret # Thrown
        /\ "valid" \in DOMAIN ret
        /\ ret.valid \in BOOLEAN
        /\ ret.valid => DOMAIN ret = {"valid"}
        /\ ~ret.valid => DOMAIN ret = {"valid", "error"} /\ ret.error.msg # ""

C17_Witness ==
    /\ Returned("validateCIDRAlignment")
    /\ args.cidr = JSUndefined
    /\ ret = Invalid("CIDR notation is required", <<>>)

\* C18: normalizeCIDR is idempotent on valid "address/prefix" texts:
\* normalizeCIDR(normalizeCIDR(x)) = normalizeCIDR(x), and normalizeCIDR(x)
\* keeps the prefix of x and puts the network address in place of the address.
C18_NormalizeIdempotent ==
    /\ pc = "once" /\ fn = "normalizeCIDR" =>
           ret = Cidr(AddrOf(BlockStart(TextAddr(args.cidr), TextPrefix(args.cidr))),
                      TextPrefix(args.cidr))
    /\ Returned("normalizeCIDR") =>
           /\ ret.twice = ret.once
           /\ TextPrefix(ret.once) = TextPrefix(args.cidr)
           /\ TextAddr(ret.once) = BlockStart(TextAddr(args.cidr), TextPrefix(args.cidr))

C18_Witness ==
    /\ Returned("normalizeCIDR")
    /\ args.cidr = <<"1", "9", "2", ".", "1", "6", "8", ".", "2", ".", "7", "7", "/", "2", "3">>
    /\ ret.once = <<"1", "9", "2", ".", "1", "6", "8", ".", "2", ".", "0", "/", "2", "3">>
    /\ ret.twice = ret.once

\* The text is eight groups of four lower-case hexadecimal digits.
IsExpandedText(s) ==
    LET g == Split(s, <<":">>)
    IN  /\ Len(g) = IPV6_GROUPS
        /\ \A k \in 1..IPV6_GROUPS : Len(g[k]) = 4 /\ \A i \in 1..4 : IsHexDigit(g[k][i])

\* C19: for every valid IPv6 address text x,
\* expandIPv6(compressIPv6(expandIPv6(x))) = expandIPv6(x): compressing and
\* expanding again restores the same eight zero-padded groups.
C19_ExpandCompressExpand ==
    Returned("expandIPv6") =>
        /\ IsExpandedText(ret.expanded)
        /\ ret.reexpanded = ret.expanded

C19_Witness ==
    /\ Returned("expandIPv6")
    /\ args.ip = <<"2", "0", "0", "1", ":", "d", "b", "8", ":", "0", ":", "0", ":", "1", ":", "0", ":", "0", ":", "1">>
    /\ ret.compressed = <<"2", "0", "0", "1", ":", "d", "b", "8", ":", ":", "1", ":", "0", ":", "0", ":", "1">>
    /\ ret.reexpanded = <<"2", "0", "0", "1", ":", "0", "d", "b", "8", ":", "0", "0", "0", "0", ":", "0", "0", "0", "0", ":", "0", "0", "0", "1", ":", "0", "0", "0", "0", ":", "0", "0", "0", "0", ":", "0", "0", "0", "1">>

\* C20: findNextAvailableBlock terminates for every afterNetwork, prefix and
\* list of existing ranges: the candidate strictly increases on every
\* collision (and the pass is counted), the loop runs at most 1000 passes, null
\* is returned when the cap is exhausted or the candidate has passed the top
\* of the 32-bit address space and only then, and every call returns.
C20_Terminates ==
    /\ [](fn = "findNextAvailableBlock" /\ pc \in {"test", "body", "done"} =>
              ret.iterations <= maxIterations)
    /\ [][pc = "body" /\ pc' = "test" =>
              /\ NumLt(ret.candidate, ret'.candidate)
              /\ ret'.iterations = ret.iterations + 1]_vars
    /\ [][/\ pc = "test"
          /\ \/ ret.iterations >= maxIterations
             \/ NumLe(<<Limb - 1, Limb - 1>>, ret.candidate)
          => pc' = "done" /\ ret'.value = Null]_vars
    /\ [](pc = "done" /\ ret.value = Null =>
              \/ ret.iterations = maxIterations
              \/ NumLe(<<Limb - 1, Limb - 1>>, ret.candidate))
    /\ <>(pc = "done")

C20_Witness ==
    /\ pc = "done"
    /\ fn = "findNextAvailableBlock"
    /\ Len(args.existingRanges) = maxIterations + 1
    /\ ret.value = Null
    /\ ret.iterations = maxIterations
    /\ NumLt(ret.candidate, <<Limb - 1, Limb - 1>>)

\* The intervals of the CIDR texts of a list.
StartsOf(cidrs) == [i \in 1..Len(cidrs) |-> CidrStart(cidrs[i])]

EndsOf(cidrs) == [i \in 1..Len(cidrs) |-> CidrEnd(cidrs[i])]

\* C21 (as stated): for every non-empty list of valid IPv4 CIDRs
\* calculateSupernet returns from inside the prefix-widening loop; the final
\* "0.0.0.0/0" return after the loop is never reached.
C21_FallbackUnreachable ==
    Returned("calculateSupernet") /\ Len(args.cidrs) >= 1 => ret.at # "fallback"

\* C21 (amended): for a list of two or more CIDRs the final return after the
\* loop is reached exactly when no aligned block of prefix length 1 or more
\* holds every input (the inputs lie in both halves of the address space, or
\* one of them is a /0), and it then returns "0.0.0.0/0"; in every other case
\* the result is returned from inside the loop.  A list of one CIDR returns
\* before the loop.
C21_FallbackForWholeSpace ==
    Returned("calculateSupernet") /\ Len(args.cidrs) >= 1 =>
        IF Len(args.cidrs) = 1 THEN ret.at = "single"
        ELSE LET starts == StartsOf(args.cidrs)
                 ends == EndsOf(args.cidrs)
             IN  /\ ret.at \in {"loop", "fallback"}
                 /\ (ret.at = "fallback") = ~Covers(starts[1], 1, starts, ends)
                 /\ (ret.at = "fallback" => ret.value = Cidr(Addr(0, 0, 0, 0), 0))
                 /\ (ret.at = "loop" => InputPrefix(ret.value) >= 1)

C21_Witness ==
    /\ Returned("calculateSupernet")
    /\ Len(args.cidrs) = 2
    /\ \A i \in 1..2 : InputPrefix(args.cidrs[i]) >= 24
    /\ ret.at = "fallback"
    /\ ret.value = Cidr(Addr(0, 0, 0, 0), 0)

\* A group of four digits written without its leading zeros ("0" for 0000).
ShortGroup(g) ==
    LET k == CHOOSE k \in 1..Len(g) :
                 /\ (k = Len(g) \/ g[k] # "0")
                 /\ \A j \in 1..(k - 1) : g[j] = "0"
    IN  SubSeq(g, k, Len(g))

\* The maximal runs <<first, last>> of two or more all-zero groups.
ZeroRuns(groups) ==
    LET Zero(i) == \A j \in 1..Len(groups[i]) : groups[i][j] = "0"
        n == Len(groups)
    IN  {r \in (1..n) \X (1..n) :
            /\ r[1] < r[2]
            /\ \A i \in r[1]..r[2] : Zero(i)
            /\ (r[1] = 1 \/ ~Zero(r[1] - 1))
            /\ (r[2] = n \/ ~Zero(r[2] + 1))}

\* The compressed text the claim describes, of eight four-digit groups.
CompressedForm(groups) ==
    LET short == [i \in 1..Len(groups) |-> ShortGroup(groups[i])]
        runs == ZeroRuns(groups)
        RunLen(r) == r[2] - r[1] + 1
        best == CHOOSE r \in runs :
                    \A q \in runs : \/ RunLen(q) < RunLen(r)
                                    \/ RunLen(q) = RunLen(r) /\ r[1] <= q[1]
    IN  IF runs = {} THEN Join(short, <<":">>)
        ELSE Join(SubSeq(short, 1, best[1] - 1), <<":">>) \o <<":", ":">>
                 \o Join(SubSeq(short, best[2] + 1, Len(short)), <<":">>)

\* C22: compressIPv6 replaces with "::" exactly one run of zero groups, the
\* longest run of two or more consecutive zero groups and the leftmost of the
\* longest ones; when there is no run of two or more (single zero groups
\* included) it writes no "::" but all eight groups, each without leading
\* zeros.  The result is the same for every written form of the address.
C22_LongestLeftmostRun ==
    pc = "compressed" =>
        /\ ret.compressed = CompressedForm(Split(ret.expanded, <<":">>))
        /\ compressIPv6(args.ip) = ret.compressed

\* Two runs of two zero groups: the left one is replaced, the right one and
\* no single zero group is.
C22_Witness ==
    /\ pc = "compressed"
    /\ ret.expanded = <<"2", "0", "0", "1", ":", "0", "d", "b", "8", ":", "0", "0", "0", "0", ":", "0", "0", "0", "0", ":", "0", "0", "a", "b", ":", "0", "0", "0", "0", ":", "0", "0", "0", "0", ":", "0", "0", "0", "1">>
    /\ ret.compressed = <<"2", "0", "0", "1", ":", "d", "b", "8", ":", ":", "a", "b", ":", "0", ":", "0", ":", "1">>

\* The block that the text of a range's cidr field denotes: its address with
\* the host bits cleared and its prefix length.
WrittenBlock(range) ==
    IF range.ipVersion = 4
    THEN [start |-> CidrStart(range.cidr), prefix |-> InputPrefix(range.cidr)]
    ELSE LET sp == SplitIPv6CIDR(range.cidr)
             p == DigitsValue(sp.prefixStr, 10)
             bits == HexToBinary(ipv6GroupsToHex(parseIPv6(sp.ipStr)))
         IN  [start |-> SubSeq(bits, 1, p), prefix |-> p]

\* Block a lies inside block b: b's prefix is no longer than a's and a's
\* address starts with b's network bits.
Nested(a, b, version) ==
    /\ b.prefix <= a.prefix
    /\ IF version = 4
       THEN BlockStart(a.start, b.prefix) = b.start
       ELSE SubSeq(a.start, 1, b.prefix) = b.start

\* C23: for two ranges of the same IP version whose cidr fields are valid
\* CIDR texts (host bits set or not) checkOverlap never reports "partial": it
\* reports "contains" when range2's block lies in range1's, else "contained"
\* when range1's lies in range2's, and null when the blocks are disjoint.
C23_NeverPartial ==
    Returned("checkOverlap") /\ args.range1.ipVersion = args.range2.ipVersion =>
        LET v == args.range1.ipVersion
            b1 == WrittenBlock(args.range1)
            b2 == WrittenBlock(args.range2)
        IN  /\ ret.overlapType # "partial"
            /\ ret.overlapType = IF Nested(b2, b1, v) THEN "contains"
                                 ELSE IF Nested(b1, b2, v) THEN "contained"
                                 ELSE "null"

\* Two texts with host bits set whose written addresses lie in one block.
C23_Witness ==
    /\ Returned("checkOverlap")
    /\ args.range1.cidr = Cidr(Addr(192, 168, 2, 77), 23)
    /\ args.range2.cidr = Cidr(Addr(192, 168, 0, 128), 16)
    /\ ret.overlapType = "contained"

\* Two digit texts of one length in numeric order (most significant first).
RECURSIVE DigitsLe(_, _)
DigitsLe(a, b) ==
    IF a = <<>> THEN TRUE
    ELSE IF DigitValue(a[1]) # DigitValue(b[1]) THEN DigitValue(a[1]) < DigitValue(b[1])
    ELSE DigitsLe(Tail(a), Tail(b))

\* Two address texts of one family in numeric address order.
AddressLe(version, a, b) ==
    IF version = 4 THEN NumLe(AddrValue(a), AddrValue(b))
    ELSE DigitsLe(Join(Split(expandIPv6(a), <<":">>), <<>>),
                  Join(Split(expandIPv6(b), <<":">>), <<>>))

\* C24: every range that calculateCIDRRange or calculateIPv6CIDRRange makes
\* from a valid "address/prefix" text has networkAddress <= firstUsable <=
\* lastUsable <= broadcastAddress in numeric address order, for every prefix
\* of both families (IPv4 /31, /32 and IPv6 /127, /128 included).
C24_UsableOrdered ==
    Returned("calculateCIDRRange") \/ Returned("calculateIPv6CIDRRange") =>
        /\ AddressLe(ret.ipVersion, ret.networkAddress, ret.firstUsable)
        /\ AddressLe(ret.ipVersion, ret.firstUsable, ret.lastUsable)
        /\ AddressLe(ret.ipVersion, ret.lastUsable, ret.broadcastAddress)

\* C25: calculateCIDRRange depends only on the normalized block: for every
\* valid IPv4 "address/prefix" text x, calculateCIDRRange(x) and
\* calculateCIDRRange(normalizeCIDR(x)) agree on every field other than id
\* (ipClass among them), whatever host bits x has set.
C25_SameAsNormalized ==
    Returned("calculateCIDRRange") =>
        [ret.written EXCEPT !.id = "cidr-1"] = [ret.ofNormalized EXCEPT !.id = "cidr-1"]

\* C26: every text that validateCIDR accepts, a bare IPv4 address with no "/"
\* included, gives when passed directly to calculateCIDRRange a record whose
\* prefixLength is an integer in [0,32] and whose cidr is
\* "network/prefixLength"; a bare address gives prefixLength 32, totalHosts
\* "1" and networkAddress equal to the address.
C26_AcceptedGivesRange ==
    Returned("validateCIDR") =>
        LET text == Trim(args.cidr.value)
            range == ret.range
            p == range.prefixLength
        IN  /\ ~IsNaN(p)
            /\ NumLe(Num(0), p) /\ NumLe(p, Num(32))
            /\ range.cidr = Cidr(range.networkAddress, ToNat(p))
            /\ (~Includes(text, <<"/">>) =>
                    /\ p = Num(32)
                    /\ range.totalHosts = <<"1">>
                    /\ range.networkAddress = text)

\* The lowest start of a free aligned block of prefix length p above the
\* address after: the aligned blocks that can be the lowest free one start
\* right above after or right behind the end of an existing range.  The set
\* holds the start when there is a free block and is empty otherwise.
LowestFree(after, p, existingRanges) ==
    LET size == TwoTo(32 - p)
        AlignUp(x) == IF ModPow2(x, size) = Num(0) THEN x
                      ELSE NumAdd(BlockStart(x, p), size)
        Last(s) == NumSub(NumAdd(s, size), Num(1))
        Free(s) ==
            /\ NumLt(after, s)
            /\ IsUint32(s)
            /\ IsUint32(Last(s))
            /\ \A k \in 1..Len(existingRanges) :
                   ~(/\ NumLe(s, CidrEnd(existingRanges[k].cidr))
                     /\ NumLe(CidrStart(existingRanges[k].cidr), Last(s)))
        candidates ==
            {NumAdd(BlockStart(after, p), size)}
                \cup {AlignUp(NumAdd(CidrEnd(existingRanges[k].cidr), Num(1))) :
                         k \in 1..Len(existingRanges)}
        free == {s \in candidates : Free(s)}
    IN  {s \in free : \A t \in free : NumLe(s, t)}

\* C27: whenever some aligned block of size 2^(32-prefix) with its start
\* above afterNetwork lies inside the 32-bit address space and overlaps no
\* existing range, and fewer than 1000 collisions occur, findNextAvailableBlock
\* returns the lowest such block: it skips no free aligned block and does not
\* return null while one exists.
C27_LowestFreeBlock ==
    Returned("findNextAvailableBlock") =>
        \A s \in LowestFree(args.afterNetwork, ToNat(args.prefix), args.existingRanges) :
            ret = Cidr(AddrOf(s), ToNat(args.prefix))

\* C28: every non-null result of calculateSupernet, for any non-empty list of
\* valid IPv4 CIDRs (a list of one element included), is a network-aligned
\* CIDR text, equal to its own normalizeCIDR, whose block contains every
\* input block.
C28_SupernetAligned ==
    Returned("calculateSupernet") /\ Len(args.cidrs) >= 1 /\ ret.value # Null =>
        /\ ret.value = normalizeCIDR(ret.value)
        /\ CidrAddr(ret.value) = CidrStart(ret.value)
        /\ Covers(CidrAddr(ret.value), InputPrefix(ret.value),
                  StartsOf(args.cidrs), EndsOf(args.cidrs))

\* C29: merge is the inverse of a one-level split and does not depend on the
\* order: for every aligned IPv4 block c with prefix p in [0,31],
\* splitCIDR(c, p+1) is a list [x, y] of two blocks and
\* canMergeCIDRs(x, y) = canMergeCIDRs(y, x) = c.
C29_MergeInvertsSplit ==
    /\ (fn = "splitCIDR" /\ pc \in {"split", "merged", "done"} =>
            /\ CidrAddr(args.cidr) = CidrStart(args.cidr)
            /\ InputPrefix(args.cidr) \in 0..31
            /\ Len(ret.halves) = 2
            /\ ret.halves[1] # ret.halves[2])
    /\ (fn = "splitCIDR" /\ pc \in {"merged", "done"} => ret.merged = args.cidr)
    /\ (Returned("splitCIDR") => ret.swapped = args.cidr)

\* The whole address space split in two and merged in both orders.
C29_Witness ==
    /\ Returned("splitCIDR")
    /\ args.cidr = Cidr(Addr(0, 0, 0, 0), 0)
    /\ ret.halves = <<Cidr(Addr(0, 0, 0, 0), 1), Cidr(Addr(128, 0, 0, 0), 1)>>
    /\ ret.merged = Cidr(Addr(0, 0, 0, 0), 0)
    /\ ret.swapped = Cidr(Addr(0, 0, 0, 0), 0)

\* C30: summarizing the pieces of a split gives back the original block: for
\* every valid IPv4 CIDR c and every q with prefix(c) < q <= 32,
\* calculateSupernet(splitCIDR(c, q)) = normalizeCIDR(c), the aligned text of
\* c's block.
C30_SupernetOfSplit ==
    Returned("splitCIDR") =>
        /\ Len(ret.pieces) = 2^(ToNat(args.newPrefix) - InputPrefix(args.cidr))
        /\ ret.supernet = ret.normalized
        /\ ret.supernet = Cidr(AddrOf(CidrStart(args.cidr)), InputPrefix(args.cidr))

\* A block with host bits set, split in 32 pieces.
C30_Witness ==
    /\ Returned("splitCIDR")
    /\ args.cidr = Cidr(Addr(192, 168, 2, 77), 23)
    /\ args.newPrefix = Num(28)
    /\ Len(ret.pieces) = 32
    /\ ret.supernet = Cidr(Addr(192, 168, 2, 0), 23)

====
